---- MODULE Spec2Model ----
(***************************************************************************)
(* The tree store and the undo history of MindMapApp (src/script.js).      *)
(*                                                                         *)
(* Node ids "node-k" are modelled by the integer k.  Node data objects     *)
(* live on a heap and are referred to by reference: the node table         *)
(* (this.nodes, a Map) and every history entry map ids to references, so   *)
(* that the sharing produced by `new Map(this.nodes)` is part of the       *)
(* model.  The heap is garbage collected: an object no table refers to is  *)
(* dropped, and its reference is free to be used again.  The coordinates   *)
(* (x, y) of a node data object are kept beside the heap, under the same   *)
(* reference, in units of 1/Scale pixel: the layout only adds, subtracts   *)
(* and halves, which IEEE doubles do exactly on these magnitudes, so the   *)
(* model is exact as long as every division it meets is (see `exact`).     *)
(* The viewport and the content of the persisted blob are not part of this *)
(* state: no operation below reads them.                                   *)
(***************************************************************************)
EXTENDS Integers, Sequences, FiniteSets, TLC

VARIABLES
    nodes,            \* this.nodes: sequence of [key, ref] in Map insertion order
    heap,             \* node data objects, indexed by reference
    selectedNode,     \* this.selectedNode
    editingNode,      \* this.editingNode
    nodeCounter,      \* this.nodeCounter
    history,          \* this.history
    elements,         \* ids of the node elements in nodesContainer
    inputs,           \* ids of the node elements that hold a textarea
    timers,           \* pending setTimeout(startEditing(id), 150), in firing order
    currentColorNode, \* this.currentColorNode (the color menu is visible iff set)
    coords,           \* x and y of the node data objects, indexed by reference
    layoutTimers,     \* number of pending setTimeout(updateLayout ..., 50) callbacks
    initTimer,        \* the setTimeout(..., 100) of init is pending (it starts autoSave)
    autoSaveTimer,    \* the setTimeout(autoSave, 5000) of autoSave is pending
    dragging,         \* drag closures with isDragging set: [ref, startNodeX, startNodeY]
    log,              \* history variable: what the listeners of the last event did, in order
    unlaid,           \* history variable: the tree was mutated and not laid out since
    lastOp,           \* history variable: what the last event did (see Kind)
    issued,           \* history variable: the ids generateId has returned, in order
    trail,            \* history variable: deep copies of the state before each mutating command
    run,              \* history variable: mutating commands since the last undo (capped)
    fuel,             \* what is still explored in this session (see Cost)
    viewport,         \* this.viewport: x and y in units of 1/Scale px, scale in 1/Scale
    savedData         \* the item localStorage held when the page was loaded

vars == <<nodes, heap, selectedNode, editingNode, nodeCounter, history, elements,
          inputs, timers, currentColorNode, coords, layoutTimers, initTimer,
          autoSaveTimer, dragging, log, unlaid, lastOp, issued, trail, run, fuel,
          viewport, savedData>>

\* ---------------------------------------------------------------- bounds
\* mutations (history pushes and text changes) explored from a fresh session
MaxCommands == 2
\* adds of a prepared session
MaxShape == 3
\* mutations, excursions and undo commands explored after a prepared session;
\* there the excursions come after the mutations (fuel.late)
MaxDeep == 2
MaxDeepExcursions == 1
\* mutations, excursions and undo commands explored after a page load
MaxLoadCommands == 1
MaxLoadExcursions == 1
MaxLoadUndos == 1
\* wheel and pan events explored in a session of zooming, and the zoom-in or
\* zoom-out events of the sessions whose stored map it may start from
MaxViewExcursions == 4
ZoomIns == 20
ZoomOuts == 45
MaxDeepUndos == 1
\* mutations, excursions and undo commands explored before a drag
MaxDragCommands == 1
MaxDragExcursions == 2
MaxDragUndos == 1
\* mutations explored from the long session
MaxTail == 1
\* undo commands explored in a session
MaxUndos == 2
\* excursions explored in a session: a color menu opened, an edit started by
\* hand, a window resize, a mouse button pressed on a node, an autosave tick, an
\* event that arrives while a timer of init or of an add is pending
MaxExcursions == 1

\* ---------------------------------------------------------------- constants
maxHistorySize == 50
Null == 0
NoColor == "null"
DefaultColor == "white"
DefaultText == <<"N">>
RootText == <<"M">>
\* colors offered by the color menu that the model enumerates
Colors == {"white", "red"}
\* values the textarea can hold when editing stops
InputValues == {<<>>, <<" ", "a">>}
\* units per pixel of the coordinates
Scale == 2^12
\* the viewport of the constructor; loadFromDatabase falls back to the same
defaultViewport == [x |-> 0, y |-> 0, scale |-> Scale]
\* localStorage.getItem found no item
Missing == [json |-> "missing"]
\* an item JSON.parse throws on
Unparseable == [json |-> "text"]
\* the item "null", and a null among the values of an item
JsonNull == [json |-> "null"]
\* a property the parsed item does not have
Undefined == [json |-> "undefined"]
\* pointer displacements (in pixels) a drag gesture reports
DragDeltas == {<<-320, 40>>}

\* ---------------------------------------------------------------- Map
Keys(m) == {m[i].key : i \in 1..Len(m)}

has(m, id) == \E i \in 1..Len(m) : m[i].key = id

refOf(m, id) == m[CHOOSE i \in 1..Len(m) : m[i].key = id].ref

MapSet(m, id, r) ==
    IF has(m, id)
    THEN [i \in 1..Len(m) |-> IF m[i].key = id THEN [key |-> id, ref |-> r] ELSE m[i]]
    ELSE Append(m, [key |-> id, ref |-> r])

MapDelete(m, id) == SelectSeq(m, LAMBDA e : e.key # id)

\* the node data object the table of t holds for id
get(t, id) == t.heap[refOf(t.nodes, id)]

\* content of a table: every key with a copy of the data of its node
Content(m, h) == [k \in Keys(m) |-> h[refOf(m, k)]]

filter(s, id) == SelectSeq(s, LAMBDA c : c # id)

\* ---------------------------------------------------------------- heap
Free == "free"

Refs(m) == {m[i].ref : i \in 1..Len(m)}

\* the objects something can still reach: the live table, the history entries
\* and the closures of the drags in progress
Reachable(t) ==
    Refs(t.nodes) \cup UNION {Refs(t.history[i].nodes) : i \in 1..Len(t.history)}
                 \cup {d.ref : d \in t.dragging}

\* a reference no table holds
newRef(t) ==
    LET used == Reachable(t)
    IN  CHOOSE r \in 1..(Len(t.heap) + 1) :
            r \notin used /\ \A q \in 1..(r - 1) : q \in used

allocate(h, r, obj) == IF r > Len(h) THEN Append(h, obj) ELSE [h EXCEPT ![r] = obj]

collect(t) ==
    LET used == Reachable(t)
        top == IF used = {} THEN 0 ELSE CHOOSE r \in used : \A q \in used : q <= r
    IN  [r \in 1..top |-> IF r \in used THEN t.heap[r] ELSE Free]

\* the coordinates of the objects collect keeps
collectCoords(t) ==
    LET used == Reachable(t)
        top == IF used = {} THEN 0 ELSE CHOOSE r \in used : \A q \in used : q <= r
    IN  [r \in 1..top |-> IF r \in used THEN t.coords[r] ELSE [x |-> 0, y |-> 0]]

\* ---------------------------------------------------------------- text
RECURSIVE trimStart(_)
trimStart(s) == IF s # <<>> /\ Head(s) = " " THEN trimStart(Tail(s)) ELSE s

RECURSIVE trimEnd(_)
trimEnd(s) ==
    IF s # <<>> /\ s[Len(s)] = " " THEN trimEnd(SubSeq(s, 1, Len(s) - 1)) ELSE s

trim(s) == trimEnd(trimStart(s))

\* ---------------------------------------------------------------- this
This ==
    [nodes |-> nodes, heap |-> heap, selectedNode |-> selectedNode,
     editingNode |-> editingNode, nodeCounter |-> nodeCounter, history |-> history,
     elements |-> elements, inputs |-> inputs, timers |-> timers,
     currentColorNode |-> currentColorNode, issued |-> issued, op |-> "noop",
     edited |-> FALSE, hasOverlap |-> FALSE, passes |-> <<>>, coords |-> coords,
     layoutTimers |-> layoutTimers,
     initTimer |-> initTimer, autoSaveTimer |-> autoSaveTimer, dragging |-> dragging,
     log |-> <<>>, exact |-> TRUE, viewport |-> viewport]

selectNode(t, nodeId) == [t EXCEPT !.selectedNode = nodeId]

\* a generateId that forgets to advance the counter
generateIdNoIncrement(t) == t.nodeCounter

\* an id taken from the size of the table
generateIdFromSize(t) == Len(t.nodes) + 1

generateId(t) == t.nodeCounter + 1

\* a saveToHistory that never evicts
saveToHistoryNoEviction(t) ==
    LET currentState == [nodes |-> t.nodes, nodeCounter |-> t.nodeCounter,
                         selectedNode |-> t.selectedNode,
                         frozen |-> Content(t.nodes, t.heap)]
    IN  [t EXCEPT !.history = Append(t.history, currentState),
                  !.log = Append(t.log, "snapshot")]

\* a saveToHistory that makes room by dropping the newest entry
saveToHistoryDropsNewest(t) ==
    LET currentState == [nodes |-> t.nodes, nodeCounter |-> t.nodeCounter,
                         selectedNode |-> t.selectedNode,
                         frozen |-> Content(t.nodes, t.heap)]
    IN  [t EXCEPT !.history =
            IF Len(t.history) >= maxHistorySize
            THEN Append(SubSeq(t.history, 1, Len(t.history) - 1), currentState)
            ELSE Append(t.history, currentState),
                  !.log = Append(t.log, "snapshot")]

\* The entry shares the node data objects with the table (refs are copied,
\* objects are not).  frozen is a history field: the content at snapshot time.
saveToHistory(t) ==
    LET currentState == [nodes |-> t.nodes, nodeCounter |-> t.nodeCounter,
                         selectedNode |-> t.selectedNode,
                         frozen |-> Content(t.nodes, t.heap)]
        pushed == Append(t.history, currentState)
    IN  [t EXCEPT !.history =
            IF Len(pushed) > maxHistorySize THEN Tail(pushed) ELSE pushed,
                  !.log = Append(t.log, "snapshot")]

\* the write to localStorage; the blob itself is not kept
saveToDatabase(t) == [t EXCEPT !.log = Append(t.log, "persist")]

\* saveToDatabase when localStorage.setItem throws: the catch logs the error and
\* returns false
saveToDatabaseCaught(t) == [t EXCEPT !.log = Append(t.log, "persistFailed")]

\* whether localStorage.setItem returns (TRUE) or throws (FALSE)
SetItemOutcomes == BOOLEAN

\* an autoSave whose failed write ends the callback
autoSaveThrows(t, stored) ==
    IF stored THEN [saveToDatabase(t) EXCEPT !.autoSaveTimer = TRUE]
    ELSE saveToDatabaseCaught(t)

\* autoSave: the write, then setTimeout(() => this.autoSave(), 5000)
autoSave(t, stored) ==
    [(IF stored THEN saveToDatabase(t) ELSE saveToDatabaseCaught(t))
        EXCEPT !.autoSaveTimer = TRUE]

\* ---------------------------------------------------------------- editing
\* stopEditing dereferences the element of editingNode without a null check
stopEditingThrows(t) == t.editingNode # Null /\ t.editingNode \notin t.elements

\* value is what the textarea holds when editing stops
stopEditing(t, value) ==
    IF t.editingNode = Null THEN t
    ELSE LET id == t.editingNode
             input == id \in t.inputs
             nodeData == has(t.nodes, id)
             text == IF trim(value) # <<>> THEN trim(value) ELSE DefaultText
         IN  IF input /\ nodeData
             THEN saveToDatabase(
                      [t EXCEPT !.heap[refOf(t.nodes, id)].text = text,
                                !.edited = (text # get(t, id).text),
                                !.log = IF text # get(t, id).text
                                        THEN Append(t.log, "mutate") ELSE t.log,
                                !.inputs = t.inputs \ {id},
                                !.editingNode = Null])
             ELSE [t EXCEPT !.editingNode = Null]

\* an exception of the nested stopEditing leaves startEditing before its first write
startEditing(t, nodeId, value) ==
    IF stopEditingThrows(t) THEN t
    ELSE LET t1 == stopEditing(t, value)
             t2 == [t1 EXCEPT !.editingNode = nodeId]
         IN  IF nodeId \notin t2.elements \/ ~has(t2.nodes, nodeId)
             THEN t2
             ELSE [t2 EXCEPT !.inputs = t2.inputs \cup {nodeId}]

\* ---------------------------------------------------------------- commands
addSiblingNode(t) ==
    IF ~has(t.nodes, t.selectedNode) THEN t
    ELSE IF get(t, t.selectedNode).level = 0 THEN t
    ELSE IF ~has(t.nodes, get(t, t.selectedNode).parent) THEN t
    ELSE LET currentNode == get(t, t.selectedNode)
             parentRef == refOf(t.nodes, currentNode.parent)
             parentNode == t.heap[parentRef]
             t1 == saveToHistory(t)
             id == generateId(t1)
             newNodeData == [id |-> id, text |-> DefaultText, level |-> currentNode.level,
                             parent |-> parentNode.id, children |-> <<>>,
                             color |-> DefaultColor]
             ref == newRef(t1)
             heap1 == allocate(t1.heap, ref, newNodeData)
         IN  [t1 EXCEPT !.op = "addSibling",
                        !.nodeCounter = id,
                        !.issued = Append(t1.issued, id),
                        !.nodes = MapSet(t1.nodes, id, ref),
                        !.heap = [heap1 EXCEPT ![parentRef].children =
                                      Append(heap1[parentRef].children, id)],
                        !.coords = allocate(t1.coords, ref,
                                            t1.coords[refOf(t1.nodes, t1.selectedNode)]),
                        !.log = Append(t1.log, "mutate"),
                        !.elements = t1.elements \cup {id},
                        !.selectedNode = id,
                        !.layoutTimers = t1.layoutTimers + 1,
                        !.timers = Append(t1.timers, id)]

\* an add-child that snapshots before it looks the parent up
addChildNodeSavesFirst(t) ==
    IF ~has(t.nodes, t.selectedNode) THEN saveToHistory(t)
    ELSE LET parentRef == refOf(t.nodes, t.selectedNode)
             parentNode == t.heap[parentRef]
             t1 == saveToHistory(t)
             id == generateId(t1)
             newNodeData == [id |-> id, text |-> DefaultText, level |-> parentNode.level + 1,
                             parent |-> parentNode.id, children |-> <<>>,
                             color |-> DefaultColor]
             ref == newRef(t1)
             heap1 == allocate(t1.heap, ref, newNodeData)
         IN  [t1 EXCEPT !.op = "addChild",
                        !.nodeCounter = id,
                        !.issued = Append(t1.issued, id),
                        !.nodes = MapSet(t1.nodes, id, ref),
                        !.heap = [heap1 EXCEPT ![parentRef].children =
                                      Append(heap1[parentRef].children, id)],
                        !.coords = allocate(t1.coords, ref, t1.coords[parentRef]),
                        !.log = Append(t1.log, "mutate"),
                        !.elements = t1.elements \cup {id},
                        !.selectedNode = id,
                        !.layoutTimers = t1.layoutTimers + 1,
                        !.timers = Append(t1.timers, id)]

addChildNode(t) ==
    IF ~has(t.nodes, t.selectedNode) THEN t
    ELSE LET parentRef == refOf(t.nodes, t.selectedNode)
             parentNode == t.heap[parentRef]
             t1 == saveToHistory(t)
             id == generateId(t1)
             newNodeData == [id |-> id, text |-> DefaultText, level |-> parentNode.level + 1,
                             parent |-> parentNode.id, children |-> <<>>,
                             color |-> DefaultColor]
             ref == newRef(t1)
             heap1 == allocate(t1.heap, ref, newNodeData)
         IN  [t1 EXCEPT !.op = "addChild",
                        !.nodeCounter = id,
                        !.issued = Append(t1.issued, id),
                        !.nodes = MapSet(t1.nodes, id, ref),
                        !.heap = [heap1 EXCEPT ![parentRef].children =
                                      Append(heap1[parentRef].children, id)],
                        !.coords = allocate(t1.coords, ref, t1.coords[parentRef]),
                        !.log = Append(t1.log, "mutate"),
                        !.elements = t1.elements \cup {id},
                        !.selectedNode = id,
                        !.layoutTimers = t1.layoutTimers + 1,
                        !.timers = Append(t1.timers, id)]

\* deleteNode(nodeId); the forEach runs over the children array as it was when
\* the loop started (the children's own deletes replace the array, they do not
\* change it in place)
RECURSIVE deleteNode(_, _)
RECURSIVE deleteChildren(_, _, _)
deleteChildren(t, children, i) ==
    IF i > Len(children) THEN t
    ELSE deleteChildren(deleteNode(t, children[i]), children, i + 1)

\* a delete that does not stop at level 0
deleteNodeAnyLevel(t, nodeId) ==
    IF ~has(t.nodes, nodeId) THEN t
    ELSE LET nodeRef == refOf(t.nodes, nodeId)
             t1 == saveToHistory(t)
             t2 == deleteChildren(t1, t1.heap[nodeRef].children, 1)
             parent == t2.heap[nodeRef].parent
             t3 == IF parent # Null /\ has(t2.nodes, parent)
                   THEN [t2 EXCEPT !.heap[refOf(t2.nodes, parent)].children =
                             filter(t2.heap[refOf(t2.nodes, parent)].children, nodeId)]
                   ELSE t2
             t4 == [t3 EXCEPT !.elements = t3.elements \ {nodeId},
                              !.inputs = t3.inputs \ {nodeId},
                              !.nodes = MapDelete(t3.nodes, nodeId),
                              !.log = Append(t3.log, "mutate")]
             t5 == IF t4.selectedNode = nodeId THEN selectNode(t4, parent) ELSE t4
         IN  saveToDatabase(t5)

deleteNode(t, nodeId) ==
    IF ~has(t.nodes, nodeId) THEN t
    ELSE IF get(t, nodeId).level = 0 THEN t
    ELSE LET nodeRef == refOf(t.nodes, nodeId)
             t1 == saveToHistory(t)
             t2 == deleteChildren(t1, t1.heap[nodeRef].children, 1)
             parent == t2.heap[nodeRef].parent
             t3 == IF parent # Null /\ has(t2.nodes, parent)
                   THEN [t2 EXCEPT !.heap[refOf(t2.nodes, parent)].children =
                             filter(t2.heap[refOf(t2.nodes, parent)].children, nodeId)]
                   ELSE t2
             t4 == [t3 EXCEPT !.elements = t3.elements \ {nodeId},
                              !.inputs = t3.inputs \ {nodeId},
                              !.nodes = MapDelete(t3.nodes, nodeId),
                              !.log = Append(t3.log, "mutate")]
             t5 == IF t4.selectedNode = nodeId THEN selectNode(t4, parent) ELSE t4
         IN  saveToDatabase(t5)

\* ---------------------------------------------------------------- layout
px(n) == n * Scale

Abs(v) == IF v < 0 THEN 0 - v ELSE v

Max2(a, b) == IF a > b THEN a ELSE b

X(t, r) == t.coords[r].x

Y(t, r) == t.coords[r].y

setXY(t, r, x, y) == [t EXCEPT !.coords[r] = [x |-> x, y |-> y]]

setY(t, r, y) == [t EXCEPT !.coords[r].y = y]

\* a division by two; the model stays exact while v is even
halved(t, v) == [t EXCEPT !.exact = t.exact /\ v % 2 = 0]

\* parentNode.children.map(id => this.nodes.get(id)).filter(Boolean), as references
childrenOf(t, r) ==
    LET ids == SelectSeq(t.heap[r].children, LAMBDA id : has(t.nodes, id))
    IN  [i \in 1..Len(ids) |-> refOf(t.nodes, ids[i])]

\* grandParent.children mapped to nodes, without parentNode
siblingsOf(t, P) ==
    LET ids == SelectSeq(t.heap[refOf(t.nodes, t.heap[P].parent)].children,
                         LAMBDA id : has(t.nodes, id) /\ get(t, id).id # t.heap[P].id)
    IN  [i \in 1..Len(ids) |-> refOf(t.nodes, ids[i])]

maxY(t, rs) == CHOOSE v \in {Y(t, rs[i]) : i \in 1..Len(rs)} :
                   \A i \in 1..Len(rs) : Y(t, rs[i]) <= v

minY(t, rs) == CHOOSE v \in {Y(t, rs[i]) : i \in 1..Len(rs)} :
                   \A i \in 1..Len(rs) : Y(t, rs[i]) >= v

\* one side of the root: column[i] goes to (x, (i - 1 - (n - 1) / 2) * 120)
RECURSIVE placeColumn(_, _, _, _)
placeColumn(t, column, i, x) ==
    IF i > Len(column) THEN t
    ELSE placeColumn(setXY(t, column[i], x,
                           px(120) * (i - 1) - px(60) * (Len(column) - 1)),
                     column, i + 1, x)

\* a placement of the root's children that starts on the left
layoutRootChildrenLeftFirst(t, rootNode, children) ==
    LET rightNodes == [k \in 1..((Len(children) + 1) \div 2) |-> children[2 * k - 1]]
        leftNodes == [k \in 1..(Len(children) \div 2) |-> children[2 * k]]
    IN  placeColumn(placeColumn(t, rightNodes, 1, 0 - px(320)), leftNodes, 1, px(320))

layoutRootChildren(t, rootNode, children) ==
    LET rightNodes == [k \in 1..((Len(children) + 1) \div 2) |-> children[2 * k - 1]]
        leftNodes == [k \in 1..(Len(children) \div 2) |-> children[2 * k]]
    IN  placeColumn(placeColumn(t, rightNodes, 1, px(320)), leftNodes, 1, 0 - px(320))

calculateRequiredSpace(t, P, childrenCount) ==
    IF t.heap[P].parent = Null THEN 200
    ELSE IF ~has(t.nodes, t.heap[P].parent) THEN 200
    ELSE LET siblings == siblingsOf(t, P)
             counts == {Len(t.heap[siblings[i]].children) : i \in 1..Len(siblings)}
                       \cup {0}
             maxSiblingChildrenCount == CHOOSE c \in counts : \A d \in counts : d <= c
         IN  120 + Max2(maxSiblingChildrenCount, childrenCount) * 20

\* children.forEach(child => child.y += dy)
RECURSIVE shiftY(_, _, _, _)
shiftY(t, children, i, dy) ==
    IF i > Len(children) THEN t
    ELSE shiftY(setY(t, children[i], Y(t, children[i]) + dy), children, i + 1, dy)

adjustForSiblingConflicts(t, P, children, siblingNode, siblingChildren) ==
    LET minGap == px(80)
        parentAboveSibling == Y(t, P) < Y(t, siblingNode)
    IN  IF parentAboveSibling
        THEN LET maxChildY == maxY(t, children)
                 minSiblingChildY == minY(t, siblingChildren)
                 adjustment == (maxChildY + minGap) - minSiblingChildY
             IN  IF maxChildY + minGap > minSiblingChildY
                 THEN shiftY(halved(t, adjustment), children, 1, 0 - (adjustment \div 2))
                 ELSE t
        ELSE LET minChildY == minY(t, children)
                 maxSiblingChildY == maxY(t, siblingChildren)
                 adjustment == maxSiblingChildY + minGap - minChildY
             IN  IF minChildY - minGap < maxSiblingChildY
                 THEN shiftY(halved(t, adjustment), children, 1, adjustment \div 2)
                 ELSE t

RECURSIVE avoidSiblings(_, _, _, _, _)
avoidSiblings(t, P, children, siblings, i) ==
    IF i > Len(siblings) THEN t
    ELSE LET siblingChildren == childrenOf(t, siblings[i])
         IN  avoidSiblings(IF Len(siblingChildren) = 0 THEN t
                           ELSE adjustForSiblingConflicts(t, P, children, siblings[i],
                                                          siblingChildren),
                           P, children, siblings, i + 1)

avoidIntersections(t, P, children) ==
    IF t.heap[P].parent = Null \/ Len(children) = 0 THEN t
    ELSE IF ~has(t.nodes, t.heap[P].parent) THEN t
    ELSE avoidSiblings(t, P, children, siblingsOf(t, P), 1)

\* children.forEach((child, index) => ...) of layoutBranchChildrenNoIntersection
RECURSIVE placeBranch(_, _, _, _, _, _)
placeBranch(t, children, i, x, startY, verticalSpacing) ==
    IF i > Len(children) THEN t
    ELSE placeBranch(setXY(t, children[i], x, startY + (i - 1) * verticalSpacing),
                     children, i + 1, x, startY, verticalSpacing)

\* a placement that sends the children of every branch to the right
layoutBranchChildrenRightwards(t, P, children) ==
    LET baseDistance == px(280)
        minVerticalSpacing == px(120)
        direction == 1
        requiredSpace == px(calculateRequiredSpace(t, P, Len(children)))
        divisor == Max2(Len(children) - 1, 1)
        verticalSpacing == Max2(minVerticalSpacing, requiredSpace \div divisor)
        totalHeight == (Len(children) - 1) * verticalSpacing
        startY == Y(t, P) - (totalHeight \div 2)
        t1 == [t EXCEPT !.exact = /\ t.exact
                                  /\ \/ requiredSpace % divisor = 0
                                     \/ requiredSpace \div divisor < minVerticalSpacing
                                  /\ totalHeight % 2 = 0]
        t2 == placeBranch(t1, children, 1, X(t, P) + baseDistance * direction, startY,
                          verticalSpacing)
    IN  avoidIntersections(t2, P, children)

layoutBranchChildrenNoIntersection(t, P, children) ==
    LET baseDistance == px(280)
        minVerticalSpacing == px(120)
        direction == IF t.heap[P].parent # Null /\ has(t.nodes, t.heap[P].parent)
                     THEN (IF X(t, P) > X(t, refOf(t.nodes, t.heap[P].parent))
                           THEN 1 ELSE 0 - 1)
                     ELSE 1
        requiredSpace == px(calculateRequiredSpace(t, P, Len(children)))
        divisor == Max2(Len(children) - 1, 1)
        verticalSpacing == Max2(minVerticalSpacing, requiredSpace \div divisor)
        totalHeight == (Len(children) - 1) * verticalSpacing
        startY == Y(t, P) - (totalHeight \div 2)
        t1 == [t EXCEPT !.exact = /\ t.exact
                                  /\ \/ requiredSpace % divisor = 0
                                     \/ requiredSpace \div divisor < minVerticalSpacing
                                  /\ totalHeight % 2 = 0]
        t2 == placeBranch(t1, children, 1, X(t, P) + baseDistance * direction, startY,
                          verticalSpacing)
    IN  avoidIntersections(t2, P, children)

RECURSIVE layoutChildrenMindMeisterStyle(_, _)
RECURSIVE layoutEach(_, _, _)
layoutEach(t, children, i) ==
    IF i > Len(children) THEN t
    ELSE layoutEach(layoutChildrenMindMeisterStyle(t, children[i]), children, i + 1)

layoutChildrenMindMeisterStyle(t, P) ==
    LET children == childrenOf(t, P)
    IN  IF Len(children) = 0 THEN t
        ELSE layoutEach(IF t.heap[P].level = 0
                        THEN layoutRootChildren(t, P, children)
                        ELSE layoutBranchChildrenNoIntersection(t, P, children),
                        children, 1)

\* getActualNodeDimensions with the elements at their minimum size
dimensions == [width |-> 140, height |-> 50, minGapX |-> 30, minGapY |-> 25]

\* the test of resolveNodePairOverlap and of validateNoOverlaps
overlaps(t, a, b) ==
    /\ 2 * Abs(X(t, a) - X(t, b)) < px(dimensions.width + 2 * dimensions.minGapX)
    /\ Abs(Y(t, a) - Y(t, b)) < px(dimensions.height + dimensions.minGapY)

\* a choice that takes two nodes without parent for siblings
determineAdjustmentStrategyNullSiblings(t, a, b) ==
    IF t.heap[a].parent = t.heap[b].id \/ t.heap[b].parent = t.heap[a].id
    THEN "parent-child"
    ELSE IF t.heap[a].parent = t.heap[b].parent
    THEN "siblings"
    ELSE IF Abs(t.heap[a].level - t.heap[b].level) > 1
    THEN "distant-levels"
    ELSE "general"

determineAdjustmentStrategy(t, a, b) ==
    IF t.heap[a].parent = t.heap[b].id \/ t.heap[b].parent = t.heap[a].id
    THEN "parent-child"
    ELSE IF t.heap[a].parent = t.heap[b].parent /\ t.heap[a].parent # Null
    THEN "siblings"
    ELSE IF Abs(t.heap[a].level - t.heap[b].level) > 1
    THEN "distant-levels"
    ELSE "general"

\* a parent-child adjustment that moves the parent away from the child
adjustParentChildOverlapMovesParent(t, a, b, requiredDistance) ==
    LET isAParent == t.heap[a].level < t.heap[b].level
        parent == IF isAParent THEN a ELSE b
        child == IF isAParent THEN b ELSE a
        direction == IF Y(t, child) > Y(t, parent) THEN 1 ELSE 0 - 1
    IN  setY(halved(t, 3 * requiredDistance), parent,
             Y(t, child) - direction * ((3 * requiredDistance) \div 2))

\* requiredDistance * 1.5 is 3 * requiredDistance / 2
adjustParentChildOverlap(t, a, b, requiredDistance) ==
    LET isAParent == t.heap[a].level < t.heap[b].level
        parent == IF isAParent THEN a ELSE b
        child == IF isAParent THEN b ELSE a
        direction == IF Y(t, child) > Y(t, parent) THEN 1 ELSE 0 - 1
    IN  setY(halved(t, 3 * requiredDistance), child,
             Y(t, parent) + direction * ((3 * requiredDistance) \div 2))

adjustSiblingOverlap(t, a, b, requiredDistance) ==
    LET sum == Y(t, a) + Y(t, b)
        midY == sum \div 2
        adjustment == requiredDistance \div 2
        t1 == halved(halved(t, sum), requiredDistance)
    IN  IF Y(t, a) < Y(t, b)
        THEN setY(setY(t1, a, midY - adjustment), b, midY + adjustment)
        ELSE setY(setY(t1, a, midY + adjustment), b, midY - adjustment)

\* a distant-levels adjustment that pulls the deeper node towards y = 0
adjustDistantLevelOverlapInward(t, a, b, requiredDistance) ==
    LET deeperNode == IF t.heap[a].level > t.heap[b].level THEN a ELSE b
        direction == IF Y(t, deeperNode) > 0 THEN 0 - 1 ELSE 1
    IN  setY(t, deeperNode, Y(t, deeperNode) + direction * requiredDistance)

adjustDistantLevelOverlap(t, a, b, requiredDistance) ==
    LET deeperNode == IF t.heap[a].level > t.heap[b].level THEN a ELSE b
        direction == IF Y(t, deeperNode) > 0 THEN 1 ELSE 0 - 1
    IN  setY(t, deeperNode, Y(t, deeperNode) + direction * requiredDistance)

adjustGeneralOverlap(t, a, b, requiredDistance) ==
    LET currentDistance == Abs(Y(t, a) - Y(t, b))
        adjustment == ((requiredDistance - currentDistance) \div 2) + px(5)
        t1 == halved(t, requiredDistance - currentDistance)
    IN  IF Y(t, a) < Y(t, b)
        THEN setY(setY(t1, a, Y(t, a) - adjustment), b, Y(t, b) + adjustment)
        ELSE setY(setY(t1, a, Y(t, a) + adjustment), b, Y(t, b) - adjustment)

applyOverlapAdjustment(t, a, b, strategy) ==
    LET requiredDistanceY == px(dimensions.height + dimensions.minGapY + 10)
    IN  CASE strategy = "parent-child" -> adjustParentChildOverlap(t, a, b, requiredDistanceY)
          [] strategy = "siblings" -> adjustSiblingOverlap(t, a, b, requiredDistanceY)
          [] strategy = "distant-levels" -> adjustDistantLevelOverlap(t, a, b, requiredDistanceY)
          [] OTHER -> adjustGeneralOverlap(t, a, b, requiredDistanceY)

\* a pair resolution that also pushes the first node to the right
resolveNodePairOverlapSideways(t, a, b) ==
    IF overlaps(t, a, b)
    THEN [applyOverlapAdjustment(t, a, b, determineAdjustmentStrategy(t, a, b))
             EXCEPT !.hasOverlap = TRUE, !.coords[a].x = @ + px(10)]
    ELSE t

\* hasOverlap is set where the code returns true
resolveNodePairOverlap(t, a, b) ==
    IF overlaps(t, a, b)
    THEN [applyOverlapAdjustment(t, a, b, determineAdjustmentStrategy(t, a, b))
             EXCEPT !.hasOverlap = TRUE]
    ELSE t

\* the two nested for loops: every pair i < j once, in order
RECURSIVE resolvePairs(_, _, _, _)
resolvePairs(t, ns, i, j) ==
    IF i > Len(ns) THEN t
    ELSE IF j > Len(ns) THEN resolvePairs(t, ns, i + 1, i + 2)
    ELSE resolvePairs(resolveNodePairOverlap(t, ns[i], ns[j]), ns, i, j + 1)

\* a loop of at most maxIterations passes begins: passes gets its record
beginLoop(t, maxIterations) ==
    [t EXCEPT !.passes = Append(@, [maxIterations |-> maxIterations, hasOverlap |-> <<>>])]

\* a full pass over the pairs has ended: its hasOverlap joins the loop's record
endPass(t) ==
    [t EXCEPT !.passes[Len(t.passes)].hasOverlap = Append(@, t.hasOverlap)]

\* a full pass of the while loop: the two for loops from hasOverlap = false
fullPass(t, ns) ==
    CHOOSE r \in {endPass(b) : b \in {resolvePairs([t EXCEPT !.hasOverlap = FALSE], ns, 1, 2)}} :
        TRUE

\* a loop that leaves after its first pass whatever the pass found
resolveLoopSinglePass(t, ns, iteration, maxIterations) ==
    IF iteration >= maxIterations THEN t
    ELSE fullPass(t, ns)

\* the while loop of resolveOverlapsInLevel and of resolveGlobalOverlaps
RECURSIVE resolveLoop(_, _, _, _)
resolveLoop(t, ns, iteration, maxIterations) ==
    IF iteration >= maxIterations THEN t
    ELSE LET t1 == fullPass(t, ns)
         IN  IF ~t1.hasOverlap THEN t1
             ELSE resolveLoop(t1, ns, iteration + 1, maxIterations)

tableRefs(t) == [i \in 1..Len(t.nodes) |-> t.nodes[i].ref]

\* the keys of nodesByLevel, in the order the Map got them
RECURSIVE levelOrder(_, _, _)
levelOrder(t, i, acc) ==
    IF i > Len(t.nodes) THEN acc
    ELSE LET level == t.heap[t.nodes[i].ref].level
         IN  levelOrder(t, i + 1,
                        IF \E k \in 1..Len(acc) : acc[k] = level THEN acc
                        ELSE Append(acc, level))

RECURSIVE resolveLevels(_, _, _)
resolveLevels(t, levels, i) ==
    IF i > Len(levels) THEN t
    ELSE LET levelNodes == SelectSeq(tableRefs(t), LAMBDA r : t.heap[r].level = levels[i])
         IN  resolveLevels(IF Len(levelNodes) > 1
                           THEN resolveLoop(beginLoop(t, 15), levelNodes, 0, 15)
                           ELSE t,
                           levels, i + 1)

resolveOverlapsByLevel(t) == resolveLevels(t, levelOrder(t, 1, <<>>), 1)

resolveGlobalOverlaps(t) == resolveLoop(beginLoop(t, 20), tableRefs(t), 0, 20)

\* validateNoOverlaps: what it counts
remainingOverlaps(t) ==
    {p \in (1..Len(t.nodes)) \X (1..Len(t.nodes)) :
        p[1] < p[2] /\ overlaps(t, t.nodes[p[1]].ref, t.nodes[p[2]].ref)}

performComprehensiveOverlapResolution(t) == resolveGlobalOverlaps(resolveOverlapsByLevel(t))

hasRoot(t) == \E i \in 1..Len(t.nodes) : t.heap[t.nodes[i].ref].level = 0

\* Array.from(this.nodes.values()).find(node => node.level === 0)
rootRef(t) ==
    t.nodes[CHOOSE i \in 1..Len(t.nodes) :
                /\ t.heap[t.nodes[i].ref].level = 0
                /\ \A k \in 1..(i - 1) : t.heap[t.nodes[k].ref].level # 0].ref

\* updateLayout up to the end of the placement that starts at the root
phaseA(t) == layoutChildrenMindMeisterStyle(setXY(t, rootRef(t), 0, 0), rootRef(t))

updateLayout(t) ==
    IF ~hasRoot(t) THEN [t EXCEPT !.log = Append(t.log, "layout"), !.passes = <<>>]
    ELSE [performComprehensiveOverlapResolution(phaseA([t EXCEPT !.passes = <<>>]))
             EXCEPT !.log = Append(t.log, "layout")]

\* an undo that takes the oldest entry
undoPopOldest(t) ==
    LET previousState == Head(t.history)
        t1 == [t EXCEPT !.history = Tail(t.history),
                        !.elements = Keys(previousState.nodes),
                        !.inputs = {},
                        !.nodes = previousState.nodes,
                        !.nodeCounter = previousState.nodeCounter,
                        !.selectedNode = Null]
        t2 == IF previousState.selectedNode # Null
                    /\ has(t1.nodes, previousState.selectedNode)
              THEN selectNode(t1, previousState.selectedNode)
              ELSE t1
    IN  updateLayout([t2 EXCEPT !.log = Append(t2.log, "restore")])

\* undo with a history that is not empty
undoRestore(t) ==
    LET previousState == t.history[Len(t.history)]
        t1 == [t EXCEPT !.history = SubSeq(t.history, 1, Len(t.history) - 1),
                        !.elements = Keys(previousState.nodes),
                        !.inputs = {},
                        !.nodes = previousState.nodes,
                        !.nodeCounter = previousState.nodeCounter,
                        !.selectedNode = Null]
        t2 == IF previousState.selectedNode # Null
                    /\ has(t1.nodes, previousState.selectedNode)
              THEN selectNode(t1, previousState.selectedNode)
              ELSE t1
    IN  updateLayout([t2 EXCEPT !.log = Append(t2.log, "restore")])

undo(t) == IF Len(t.history) = 0 THEN t ELSE undoRestore(t)

\* ---------------------------------------------------------------- storage
\* what JSON.stringify writes for a node data object: its fields, x and y with them
stringifyNode(t, r) ==
    [id |-> t.heap[r].id, text |-> t.heap[r].text, level |-> t.heap[r].level,
     parent |-> t.heap[r].parent, children |-> t.heap[r].children,
     color |-> t.heap[r].color, x |-> t.coords[r].x, y |-> t.coords[r].y]

\* an item written without the viewport
mindmap_dataNoViewport(t) ==
    [json |-> "object",
     nodes |-> [i \in 1..Len(t.nodes) |->
                   [key |-> t.nodes[i].key,
                    value |-> IF t.nodes[i].ref = Null THEN JsonNull
                              ELSE stringifyNode(t, t.nodes[i].ref)]],
     nodeCounter |-> t.nodeCounter,
     viewport |-> Undefined]

\* the item saveToDatabase stores: Array.from(this.nodes.entries()) with every
\* value written out, nodeCounter and viewport (the timestamp is never read)
mindmap_data(t) ==
    [json |-> "object",
     nodes |-> [i \in 1..Len(t.nodes) |->
                   [key |-> t.nodes[i].key,
                    value |-> IF t.nodes[i].ref = Null THEN JsonNull
                              ELSE stringifyNode(t, t.nodes[i].ref)]],
     nodeCounter |-> t.nodeCounter,
     viewport |-> t.viewport]

\* new Map(data.nodes): every entry in order, each value a new object; a key met
\* again keeps its place and takes the later value
RECURSIVE newMap(_, _, _)
newMap(t, entries, i) ==
    IF i > Len(entries) THEN t
    ELSE LET e == entries[i]
             ref == Len(t.heap) + 1
         IN  newMap(IF e.value = JsonNull
                    THEN [t EXCEPT !.nodes = MapSet(t.nodes, e.key, Null)]
                    ELSE [t EXCEPT !.nodes = MapSet(t.nodes, e.key, ref),
                                   !.heap = Append(t.heap,
                                       [id |-> e.value.id, text |-> e.value.text,
                                        level |-> e.value.level, parent |-> e.value.parent,
                                        children |-> e.value.children,
                                        color |-> e.value.color]),
                                   !.coords = Append(t.coords,
                                       [x |-> e.value.x, y |-> e.value.y])],
                    entries, i + 1)

\* the table holds no null
sound(m) == \A i \in 1..Len(m) : m[i].ref # Null

\* this.nodes.forEach(nodeData => this.createNodeElement(nodeData)): the elements
\* made before createNodeElement throws on a null
RECURSIVE createNodeElements(_, _)
createNodeElements(t, i) ==
    IF i > Len(t.nodes) THEN t
    ELSE IF t.nodes[i].ref = Null THEN t
    ELSE createNodeElements([t EXCEPT !.elements = t.elements \cup {t.heap[t.nodes[i].ref].id}],
                            i + 1)

\* loadFromDatabase on the item savedData: `this` after it, and what it returned.
\* A nodeCounter the item lacks reads as 0, which data.nodeCounter || 0 gives too.
loadFromDatabase(t, item) ==
    IF item = Missing THEN [this |-> t, returned |-> FALSE]
    ELSE IF item = Unparseable THEN [this |-> t, returned |-> FALSE]
    ELSE IF item = JsonNull THEN [this |-> t, returned |-> FALSE]
    ELSE LET t1 == [newMap([t EXCEPT !.nodes = <<>>], item.nodes, 1)
                       EXCEPT !.nodeCounter = item.nodeCounter,
                              !.viewport = IF item.viewport = Undefined
                                           THEN defaultViewport ELSE item.viewport]
             t2 == createNodeElements(t1, 1)
         IN  IF ~sound(t1.nodes) THEN [this |-> t2, returned |-> FALSE]
             ELSE [this |-> IF hasRoot(t2)
                            THEN selectNode(t2, t2.heap[rootRef(t2)].id) ELSE t2,
                   returned |-> TRUE]

\* `this` when the constructor reaches init()
blank ==
    [nodes |-> <<>>, heap |-> <<>>, selectedNode |-> Null, editingNode |-> Null,
     nodeCounter |-> 0, history |-> <<>>, elements |-> {}, inputs |-> {},
     timers |-> <<>>, currentColorNode |-> Null, issued |-> <<>>, op |-> "noop",
     edited |-> FALSE, hasOverlap |-> FALSE, passes |-> <<>>, coords |-> <<>>,
     layoutTimers |-> 0, initTimer |-> FALSE, autoSaveTimer |-> FALSE, dragging |-> {},
     log |-> <<>>, exact |-> TRUE, trail |-> <<>>, run |-> 0,
     viewport |-> defaultViewport]

createRootNode(t) ==
    LET id == generateId(t)
        ref == Len(t.heap) + 1
    IN  selectNode([t EXCEPT !.nodeCounter = id,
                             !.issued = Append(t.issued, id),
                             !.nodes = MapSet(t.nodes, id, ref),
                             !.heap = Append(t.heap,
                                 [id |-> id, text |-> RootText, level |-> 0,
                                  parent |-> Null, children |-> <<>>, color |-> NoColor]),
                             !.coords = Append(t.coords, [x |-> 0, y |-> 0]),
                             !.elements = t.elements \cup {id}],
                   id)

\* init(): the saved state if loadFromDatabase returns true, a root node if not,
\* and the 100 ms timer
init(item) ==
    CHOOSE r \in {[(IF l.returned THEN l.this ELSE createRootNode(l.this))
                      EXCEPT !.initTimer = TRUE] :
                  l \in {loadFromDatabase(blank, item)}} : TRUE

\* the keydown listener of setupPanAndZoom
panKeyDown(t, key) ==
    IF t.editingNode # Null THEN t
    ELSE LET panSpeed == px(50)
             step == (panSpeed * Scale) \div t.viewport.scale
             t1 == [t EXCEPT !.exact = t.exact /\ (panSpeed * Scale) % t.viewport.scale = 0]
         IN  CASE key = "ArrowUp" -> [t1 EXCEPT !.viewport.y = @ + step]
               [] key = "ArrowDown" -> [t1 EXCEPT !.viewport.y = @ - step]
               [] key = "ArrowLeft" -> [t1 EXCEPT !.viewport.x = @ + step]
               [] key = "ArrowRight" -> [t1 EXCEPT !.viewport.x = @ - step]
               [] key = "Home" -> [t EXCEPT !.viewport = defaultViewport]
               [] OTHER -> t

showColorMenu(t, nodeId) == [t EXCEPT !.currentColorNode = nodeId]

hideColorMenu(t) == [t EXCEPT !.currentColorNode = Null]

changeNodeColor(t, nodeId, color) ==
    IF nodeId = Null THEN t
    ELSE LET t1 == saveToHistory(t)
         IN  IF has(t1.nodes, nodeId) /\ nodeId \in t1.elements
             THEN saveToDatabase(
                      [t1 EXCEPT !.heap[refOf(t1.nodes, nodeId)].color = color,
                                 !.log = Append(t1.log, "mutate"),
                                 !.op = "recolor"])
             ELSE [t1 EXCEPT !.op = "recolorAbsent"]

\* the key handler of the document; value is what a textarea holds in case
\* startEditing has to stop an edit first
handleKeyDown(t, key, value) ==
    IF key = "z" THEN [undo(t) EXCEPT !.op = "undo"]
    ELSE IF t.selectedNode = Null \/ t.editingNode # Null THEN t
    ELSE CASE key = "Enter" -> addSiblingNode(t)
           [] key = "Tab" -> addChildNode(t)
           [] key = "F2" -> [startEditing(t, t.selectedNode, value) EXCEPT !.op = "startEditing"]
           [] key = "Delete" ->
                IF has(t.nodes, t.selectedNode) /\ get(t, t.selectedNode).level # 0
                THEN [deleteNode(t, t.selectedNode) EXCEPT !.op = "delete"]
                ELSE t
           [] OTHER -> t

\* ---------------------------------------------------------------- history variables
\* handlers whose effect is a tree mutation that undo is meant to take back
Mutating == {"addChild", "addSibling", "delete", "recolor"}

\* handlers that call saveToHistory
Pushing == Mutating \cup {"recolorAbsent"}

Kind(op) == CASE op \in Mutating -> "cmd"
              [] op = "recolorAbsent" -> "push"
              [] op = "undo" -> "undo"
              [] OTHER -> "other"

Snapshot(t) == [tree |-> Content(t.nodes, t.heap), nodeCounter |-> t.nodeCounter]

\* the undo stack a deep-copying history of capacity maxHistorySize would hold
pushTrail(tr, snap) ==
    IF Len(tr) = maxHistorySize THEN Append(Tail(tr), snap) ELSE Append(tr, snap)

popTrail(tr) == IF tr = <<>> THEN tr ELSE SubSeq(tr, 1, Len(tr) - 1)

Cost(t) == (IF t.op \in Pushing THEN 1 ELSE 0) + (IF t.edited THEN 1 ELSE 0)

\* callbacks of timers
TimerOps == {"timer", "layoutTimer", "initTimer", "autosave"}

Excursion(t) ==
    (IF t.op \in {"menu", "startEditing", "resize", "mousedown", "autosave", "pan", "wheel"}
     THEN 1 ELSE 0)
    + (IF (timers # <<>> \/ layoutTimers > 0 \/ initTimer) /\ t.op \notin TimerOps
       THEN 1 ELSE 0)

\* whether the tree is mutated and not laid out after the steps of l, when d
\* says so before them
RECURSIVE Dirty(_, _)
Dirty(l, d) ==
    IF l = <<>> THEN d
    ELSE Dirty(Tail(l), CASE Head(l) \in {"mutate", "restore"} -> TRUE
                          [] Head(l) = "layout" -> FALSE
                          [] OTHER -> d)

\* t is `this` when the event's listeners have run, base is `this` when the
\* command among them started
Commit(t, base) ==
    /\ Cost(t) <= fuel.mutations
    /\ Excursion(t) <= fuel.excursions
    /\ (Excursion(t) > 0 /\ fuel.late) => fuel.mutations = 0
    /\ t.op = "undo" => fuel.undos > 0
    /\ t.exact
    /\ nodes' = t.nodes
    /\ heap' = collect(t)
    /\ selectedNode' = t.selectedNode
    /\ editingNode' = t.editingNode
    /\ nodeCounter' = t.nodeCounter
    /\ history' = t.history
    /\ elements' = t.elements
    /\ inputs' = t.inputs
    /\ timers' = t.timers
    /\ currentColorNode' = t.currentColorNode
    /\ coords' = collectCoords(t)
    /\ layoutTimers' = t.layoutTimers
    /\ initTimer' = t.initTimer
    /\ autoSaveTimer' = t.autoSaveTimer
    /\ dragging' = t.dragging
    /\ log' = t.log
    /\ unlaid' = Dirty(t.log, unlaid)
    /\ issued' = t.issued
    /\ lastOp' = Kind(t.op)
    /\ trail' = IF t.op \in Mutating THEN pushTrail(trail, Snapshot(base))
                ELSE IF t.op = "undo" THEN popTrail(trail)
                ELSE trail
    /\ run' = IF t.op \in Mutating /\ run <= maxHistorySize THEN run + 1 ELSE run
    /\ fuel' = [mutations |-> fuel.mutations - Cost(t),
                 excursions |-> fuel.excursions - Excursion(t),
                 undos |-> fuel.undos - (IF t.op = "undo" THEN 1 ELSE 0),
                 late |-> fuel.late]
    /\ viewport' = t.viewport
    /\ UNCHANGED savedData

\* what the textarea can hold: something typed, or the text it was opened with
EditValues(t) ==
    IF t.editingNode \in t.inputs /\ has(t.nodes, t.editingNode)
    THEN (IF fuel.mutations > 0 THEN InputValues ELSE {}) \cup {get(t, t.editingNode).text}
    ELSE {DefaultText}

\* ---------------------------------------------------------------- events
ClickNode(id) ==
    /\ id \in elements
    /\ Commit([selectNode(This, id) EXCEPT !.op = "select"], This)

ClickContainer ==
    Commit([hideColorMenu(selectNode(This, Null)) EXCEPT !.op = "select"], This)

\* the two clicks of the gesture have selected the node
DblClickNode(id) ==
    /\ id \in elements
    /\ selectedNode = id
    /\ \E value \in EditValues(This) :
          Commit([startEditing(This, id, value) EXCEPT !.op = "startEditing"], This)

\* a key pressed while no textarea has the focus, or a key a textarea does not handle
KeyDown(key) ==
    /\ key \in {"z", "Tab", "F2", "Delete"} \/ (key = "Enter" /\ inputs = {})
    /\ \E value \in EditValues(This) : Commit(handleKeyDown(This, key, value), This)

\* Enter in the textarea: its own listener stops the edit, then the event
\* reaches the key handler of the document
TextareaEnter ==
    /\ inputs # {}
    /\ \E value \in EditValues(This) :
          LET t1 == IF stopEditingThrows(This) THEN This
                    ELSE [stopEditing(This, value) EXCEPT !.op = "stopEditing"]
          IN  Commit(handleKeyDown(t1, "Enter", value), t1)

\* Escape puts the text back, blur keeps what was typed
TextareaEscape ==
    /\ inputs # {}
    /\ ~stopEditingThrows(This)
    /\ \E id \in inputs :
          Commit([stopEditing(This, get(This, id).text) EXCEPT !.op = "stopEditing"], This)

TextareaBlur ==
    /\ inputs # {}
    /\ ~stopEditingThrows(This)
    /\ \E value \in EditValues(This) :
          Commit([stopEditing(This, value) EXCEPT !.op = "stopEditing"], This)

\* the timer addChildNode / addSiblingNode set 50 ms after the add
LayoutTimer ==
    /\ layoutTimers > 0
    /\ Commit([saveToDatabase(updateLayout([This EXCEPT !.layoutTimers = layoutTimers - 1]))
                  EXCEPT !.op = "layoutTimer"], This)

\* the timer addChildNode / addSiblingNode set 150 ms after the add; the 50 ms
\* timer of the same add has fired by then
EditTimer ==
    /\ timers # <<>>
    /\ layoutTimers < Len(timers)
    /\ \E value \in EditValues(This) :
          Commit([startEditing([This EXCEPT !.timers = Tail(timers)], Head(timers), value)
                     EXCEPT !.op = "timer"], This)

\* the button is enabled when the history is not empty; the click reaches the
\* document listener, which closes the color menu
ClickUndoButton ==
    /\ Len(history) > 0
    /\ Commit([hideColorMenu(undo(This)) EXCEPT !.op = "undo"], This)

ContextMenu(id) ==
    /\ id \in elements
    /\ has(nodes, id)
    /\ get(This, id).level > 0
    /\ Commit([showColorMenu(This, id) EXCEPT !.op = "menu"], This)

ClickColorOption(color) ==
    /\ currentColorNode # Null
    /\ Commit(hideColorMenu(changeNodeColor(This, currentColorNode, color)), This)

\* the timer init sets: a layout, then autoSave writes and re-arms itself
InitTimer ==
    /\ initTimer
    /\ \E stored \in SetItemOutcomes :
          Commit([autoSave(updateLayout([This EXCEPT !.initTimer = FALSE]), stored)
                     EXCEPT !.op = "initTimer"], This)

\* a later tick of autoSave
AutoSave ==
    /\ autoSaveTimer
    /\ \E stored \in SetItemOutcomes :
          Commit([autoSave([This EXCEPT !.autoSaveTimer = FALSE], stored)
                     EXCEPT !.op = "autosave"], This)

Resize == Commit([updateLayout(This) EXCEPT !.op = "resize"], This)

\* mousedown on a node element: its closure notes where the node is
MouseDown(id) ==
    /\ id \in elements
    /\ has(nodes, id)
    /\ LET ref == refOf(nodes, id)
           start == [ref |-> ref, startNodeX |-> coords[ref].x, startNodeY |-> coords[ref].y]
       IN  Commit([This EXCEPT !.dragging = {d \in dragging : d.ref # ref} \cup {start},
                               !.op = "mousedown"], This)

\* onMouseMove of every closure that is dragging; delta is the displacement of
\* the pointer since mousedown, the viewport scale is 1
RECURSIVE moveAll(_, _, _)
moveAll(t, ds, delta) ==
    IF ds = {} THEN t
    ELSE LET d == CHOOSE e \in ds : TRUE
         IN  moveAll(setXY(t, d.ref, d.startNodeX + px(delta[1]), d.startNodeY + px(delta[2])),
                     ds \ {d}, delta)

MouseMove(delta) ==
    /\ dragging # {}
    /\ Commit([moveAll(This, dragging, delta) EXCEPT !.op = "mousemove"], This)

MouseUp ==
    /\ dragging # {}
    /\ Commit([This EXCEPT !.dragging = {}, !.op = "mouseup"], This)

\* ---------------------------------------------------------------- specification
\* the state after the constructor: init found no stored blob and created the root
rootData == [id |-> 1, text |-> RootText, level |-> 0, parent |-> Null,
             children |-> <<>>, color |-> NoColor]

Init ==
    /\ nodes = <<[key |-> 1, ref |-> 1]>>
    /\ heap = <<rootData>>
    /\ selectedNode = 1
    /\ editingNode = Null
    /\ nodeCounter = 1
    /\ history = <<>>
    /\ elements = {1}
    /\ inputs = {}
    /\ timers = <<>>
    /\ currentColorNode = Null
    /\ coords = <<[x |-> 0, y |-> 0]>>
    /\ layoutTimers = 0
    /\ initTimer = TRUE
    /\ autoSaveTimer = FALSE
    /\ dragging = {}
    /\ log = <<>>
    /\ unlaid = FALSE
    /\ lastOp = "other"
    /\ issued = <<1>>
    /\ trail = <<>>
    /\ run = 0
    /\ fuel = [mutations |-> MaxCommands, excursions |-> MaxExcursions,
               undos |-> MaxUndos, late |-> FALSE]
    /\ viewport = defaultViewport
    /\ savedData = Missing

Events ==
    \/ \E id \in elements : ClickNode(id)
    \/ ClickContainer
    \/ \E id \in elements : DblClickNode(id)
    \/ \E key \in {"z", "Enter", "Tab", "F2", "Delete"} : KeyDown(key)
    \/ TextareaEnter
    \/ TextareaEscape
    \/ TextareaBlur
    \/ EditTimer
    \/ ClickUndoButton
    \/ \E id \in elements : ContextMenu(id)
    \/ \E color \in Colors : ClickColorOption(color)
    \/ LayoutTimer
    \/ AutoSave
    \/ Resize
    \/ \E id \in elements : MouseDown(id)
    \/ \E delta \in DragDeltas : MouseMove(delta)
    \/ MouseUp

Next == InitTimer \/ Events

Spec == Init /\ [][Next]_vars

\* ---------------------------------------------------------------- prepared sessions
\* A prepared session adds nodes one at a time and lets every add settle: click
\* on the parent, Tab, the 50 ms timer, the 150 ms timer, Escape.  A script
\* gives the parents: the k-th add (node k + 1) goes under node s[k] <= k.
Scripts ==
    {s \in [1..MaxShape -> 1..MaxShape] : \A k \in 1..MaxShape : s[k] <= k}

\* `this` after the constructor, with the history variables of the session
fresh ==
    [nodes |-> <<[key |-> 1, ref |-> 1]>>, heap |-> <<rootData>>, selectedNode |-> 1,
     editingNode |-> Null, nodeCounter |-> 1, history |-> <<>>, elements |-> {1},
     inputs |-> {}, timers |-> <<>>, currentColorNode |-> Null, issued |-> <<1>>,
     op |-> "noop", edited |-> FALSE, hasOverlap |-> FALSE, passes |-> <<>>,
     coords |-> <<[x |-> 0, y |-> 0]>>, layoutTimers |-> 0, initTimer |-> TRUE,
     autoSaveTimer |-> FALSE, dragging |-> {}, log |-> <<>>, exact |-> TRUE, trail |-> <<>>, run |-> 0,
     viewport |-> defaultViewport]

\* the timer of init has fired
started == autoSave(updateLayout([fresh EXCEPT !.initTimer = FALSE]), TRUE)

\* every step is bound to its value before the next step uses it; q[1] is
\* `this` after the click, q[2] `this` after the step
prepare(t, p) ==
    LET clicked == {[selectNode(t, p) EXCEPT !.log = <<>>]}
        added == {<<c, handleKeyDown(c, "Tab", DefaultText)>> : c \in clicked}
        laid == {<<q[1], saveToDatabase(updateLayout([q[2] EXCEPT !.layoutTimers = 0,
                                                                  !.log = <<>>]))>> :
                     q \in added}
        editing == {<<q[1], startEditing([q[2] EXCEPT !.timers = <<>>, !.log = <<>>],
                                         Head(q[2].timers), DefaultText)>> : q \in laid}
        escaped == {<<q[1], stopEditing([q[2] EXCEPT !.log = <<>>],
                                        get(q[2], q[2].editingNode).text)>> : q \in editing}
    IN  CHOOSE r \in {[q[2] EXCEPT !.trail = pushTrail(t.trail, Snapshot(q[1])),
                                   !.run = t.run + 1,
                                   !.op = "noop"] : q \in escaped} : TRUE

RECURSIVE Build(_, _)
Build(s, n) ==
    IF n = 0 THEN started
    ELSE CHOOSE r \in {prepare(b, s[n]) : b \in {Build(s, n - 1)}} : TRUE

\* the state at the end of a prepared session
Prepared(s) == Build(s, Len(s))

\* every prepared session, with the budget f for what follows
InitPrepared(f) ==
    \E s \in Scripts : \E session \in {Prepared(s)} :
        /\ session.exact
        /\ nodes = session.nodes
        /\ heap = session.heap
        /\ selectedNode = session.selectedNode
        /\ editingNode = session.editingNode
        /\ nodeCounter = session.nodeCounter
        /\ history = session.history
        /\ elements = session.elements
        /\ inputs = session.inputs
        /\ timers = session.timers
        /\ currentColorNode = session.currentColorNode
        /\ coords = session.coords
        /\ layoutTimers = session.layoutTimers
        /\ initTimer = session.initTimer
        /\ autoSaveTimer = session.autoSaveTimer
        /\ dragging = session.dragging
        /\ log = session.log
        /\ unlaid = FALSE
        /\ lastOp = "other"
        /\ issued = session.issued
        /\ trail = session.trail
        /\ run = session.run
        /\ fuel = f
        /\ viewport = session.viewport
        /\ savedData = Missing

\* every prepared session, explored for a few more commands
InitDeep ==
    InitPrepared([mutations |-> MaxDeep, excursions |-> MaxDeepExcursions,
                  undos |-> MaxDeepUndos, late |-> TRUE])

\* the commands of the program and the window resize
NextDeep ==
    \/ \E id \in elements : ClickNode(id)
    \/ \E key \in {"z", "Tab", "Delete"} : KeyDown(key)
    \/ TextareaEscape
    \/ EditTimer
    \/ LayoutTimer
    \/ Resize

SpecDeep == InitDeep /\ [][NextDeep]_vars

\* every prepared session, explored for one more command and a drag
InitDrag ==
    InitPrepared([mutations |-> MaxDragCommands, excursions |-> MaxDragExcursions,
                  undos |-> MaxDragUndos, late |-> TRUE])

\* the commands of the program and the drag of a node
NextDrag ==
    \/ \E id \in elements : ClickNode(id)
    \/ \E key \in {"z", "Tab", "Delete"} : KeyDown(key)
    \/ TextareaEscape
    \/ EditTimer
    \/ LayoutTimer
    \/ \E id \in elements : MouseDown(id)
    \/ \E delta \in DragDeltas : MouseMove(delta)
    \/ MouseUp

SpecDrag == InitDrag /\ [][NextDrag]_vars

\* ---------------------------------------------------------------- a long session
\* The state of a session that has filled the history to its capacity: Tab on
\* the root (node 2 is added and selected, its edit timer fires, Escape ends the
\* edit), then the color menu of node 2 is opened and "red" is clicked,
\* maxHistorySize - 1 times.
child2(color) == [id |-> 2, text |-> DefaultText, level |-> 1, parent |-> 1,
                  children |-> <<>>, color |-> color]

fullTable == <<[key |-> 1, ref |-> 1], [key |-> 2, ref |-> 2]>>

\* the content before the k-th command of that session
fullContent(k) ==
    IF k = 1 THEN (1 :> rootData)
    ELSE (1 :> [rootData EXCEPT !.children = <<2>>])
         @@ (2 :> child2(IF k = 2 THEN DefaultColor ELSE "red"))

fullEntry(k) ==
    IF k = 1
    THEN [nodes |-> <<[key |-> 1, ref |-> 1]>>, nodeCounter |-> 1, selectedNode |-> 1,
          frozen |-> fullContent(k)]
    ELSE [nodes |-> fullTable, nodeCounter |-> 2, selectedNode |-> 2,
          frozen |-> fullContent(k)]

InitFull ==
    /\ nodes = fullTable
    /\ heap = <<[rootData EXCEPT !.children = <<2>>], child2("red")>>
    /\ selectedNode = 2
    /\ editingNode = Null
    /\ nodeCounter = 2
    /\ history = [k \in 1..maxHistorySize |-> fullEntry(k)]
    /\ elements = {1, 2}
    /\ inputs = {}
    /\ timers = <<>>
    /\ currentColorNode = Null
    /\ coords = <<[x |-> 0, y |-> 0], [x |-> px(320), y |-> 0]>>
    /\ layoutTimers = 0
    /\ initTimer = FALSE
    /\ autoSaveTimer = TRUE
    /\ dragging = {}
    /\ log = <<"snapshot", "mutate", "persist">>
    /\ unlaid = TRUE
    /\ lastOp = "cmd"
    /\ issued = <<1, 2>>
    /\ trail = [k \in 1..maxHistorySize |->
                   [tree |-> fullContent(k), nodeCounter |-> IF k = 1 THEN 1 ELSE 2]]
    /\ run = maxHistorySize
    /\ fuel = [mutations |-> MaxTail, excursions |-> MaxExcursions,
               undos |-> MaxUndos, late |-> FALSE]
    /\ viewport = defaultViewport
    /\ savedData = Missing

\* the timer of init ran long before this state
SpecFull == InitFull /\ [][Events]_vars

\* ---------------------------------------------------------------- page loads
\* a node as an item holds it
stored(id, level, parent, children, x, y) ==
    [id |-> id, text |-> IF level = 0 THEN RootText ELSE DefaultText, level |-> level,
     parent |-> parent, children |-> children,
     color |-> IF level = 0 THEN NoColor ELSE DefaultColor, x |-> x, y |-> y]

object(entries, counter, view) ==
    [json |-> "object", nodes |-> entries, nodeCounter |-> counter, viewport |-> view]

\* items an earlier session of the program wrote
\* a session whose nodes were dragged before an autosave tick: node 3 of the
\* chain onto the root, node 4 next to it
draggedSession ==
    CHOOSE r \in {setXY(setXY(b, refOf(b.nodes, 3), px(40), px(30)),
                        refOf(b.nodes, 4), 0 - px(40), 0) :
                  b \in {Prepared(<<1, 2, 3>>)}} : TRUE

\* what the session stores after root, 2, 3, 4 were added in a chain, node 2 was
\* deleted and the delete undone (the four nodes are back, every children list the
\* delete emptied stays empty), and nodes 2 and 4 were dragged
unlistedItem ==
    object(<<[key |-> 1, value |-> stored(1, 0, Null, <<>>, 0, 0)],
             [key |-> 2, value |-> stored(2, 1, 1, <<>>, px(320), px(60))],
             [key |-> 3, value |-> stored(3, 2, 2, <<>>, px(600), 0)],
             [key |-> 4, value |-> stored(4, 3, 3, <<>>, px(320), px(10))]>>, 4,
           defaultViewport)

\* what the session stores after the same chain, delete of node 2 and undo, when
\* node 2 is deleted again: node 3 stays in the table with parent 2
orphanItem ==
    object(<<[key |-> 1, value |-> stored(1, 0, Null, <<>>, 0, 0)],
             [key |-> 3, value |-> stored(3, 2, 2, <<>>, px(600), 0)],
             [key |-> 4, value |-> stored(4, 3, 3, <<>>, px(880), 0)]>>, 4,
           defaultViewport)

writtenItems ==
    {mindmap_data(started), mindmap_data([started EXCEPT !.viewport.x = px(50)]),
     mindmap_data(draggedSession), unlistedItem, orphanItem}
    \cup {mindmap_data(Prepared(s)) : s \in Scripts}

\* items something else left under the key: "{}", a node whose parent is not in
\* the item, an item without a root, one with two roots, and nulls for nodes
foreignItems ==
    {Unparseable, JsonNull,
     object(<<>>, 0, Undefined),
     object(<<[key |-> 1, value |-> stored(1, 0, Null, <<2>>, 0, 0)],
              [key |-> 2, value |-> stored(2, 1, 3, <<>>, px(320), 0)]>>, 2, defaultViewport),
     object(<<[key |-> 2, value |-> stored(2, 1, 1, <<>>, px(320), 0)]>>, 2, defaultViewport),
     object(<<[key |-> 1, value |-> stored(1, 0, Null, <<>>, 0, 0)],
              [key |-> 2, value |-> stored(2, 0, Null, <<>>, 0, px(120))]>>, 2,
            defaultViewport),
     object(<<[key |-> 5, value |-> JsonNull]>>, 0, defaultViewport),
     object(<<[key |-> 1, value |-> JsonNull]>>, 0, defaultViewport)}

Items == {Missing} \cup writtenItems \cup foreignItems

\* the page is loaded with some item under the key: the constructor has run
InitLoad ==
    \E item \in Items : \E session \in {init(item)} :
        /\ nodes = session.nodes
        /\ heap = session.heap
        /\ selectedNode = session.selectedNode
        /\ editingNode = session.editingNode
        /\ nodeCounter = session.nodeCounter
        /\ history = session.history
        /\ elements = session.elements
        /\ inputs = session.inputs
        /\ timers = session.timers
        /\ currentColorNode = session.currentColorNode
        /\ coords = session.coords
        /\ layoutTimers = session.layoutTimers
        /\ initTimer = session.initTimer
        /\ autoSaveTimer = session.autoSaveTimer
        /\ dragging = session.dragging
        /\ log = session.log
        /\ unlaid = FALSE
        /\ lastOp = "other"
        /\ issued = session.issued
        /\ trail = session.trail
        /\ run = session.run
        /\ fuel = [mutations |-> MaxLoadCommands, excursions |-> MaxLoadExcursions,
                   undos |-> MaxLoadUndos, late |-> FALSE]
        /\ viewport = session.viewport
        /\ savedData = item

\* the find of updateLayout meets a null before it meets a node of level 0
throwsAtFind(m, h) ==
    \E i \in 1..Len(m) :
        /\ m[i].ref = Null
        /\ \A k \in 1..(i - 1) : m[k].ref # Null /\ h[m[k].ref].level # 0

\* the timer of init when updateLayout throws: the callback ends there, nothing
\* is laid out or saved and autoSave is not started
InitTimerThrows ==
    /\ initTimer
    /\ throwsAtFind(nodes, heap)
    /\ initTimer' = FALSE
    /\ log' = <<>>
    /\ lastOp' = "other"
    /\ UNCHANGED <<nodes, heap, selectedNode, editingNode, nodeCounter, history, elements,
                   inputs, timers, currentColorNode, coords, layoutTimers, autoSaveTimer,
                   dragging, unlaid, issued, trail, run, fuel, viewport, savedData>>

\* the scale the wheel listener clamps to: 0.1, rounded up to the 1/Scale grid, and 3
minScale == (Scale + 9) \div 10
maxScale == 3 * Scale

\* the wheel listener of the container; mouse is the pointer relative to the
\* centre of the window. zoomFactor 1.05 is 21 / 20; the products and quotients
\* of the floating-point arithmetic are rounded down to the 1/Scale grid
wheel(t, deltaY, mouse) ==
    LET oldScale == t.viewport.scale
        zoomed == IF deltaY < 0 THEN (oldScale * 21) \div 20 ELSE (oldScale * 20) \div 21
        scale == IF zoomed > maxScale
                 THEN (IF maxScale < minScale THEN minScale ELSE maxScale)
                 ELSE (IF zoomed < minScale THEN minScale ELSE zoomed)
        scaleDiff == scale - oldScale
    IN  [t EXCEPT !.viewport = [x |-> @.x - ((((px(mouse[1]) * Scale) \div oldScale) * scaleDiff) \div scale),
                               y |-> @.y - ((((px(mouse[2]) * Scale) \div oldScale) * scaleDiff) \div scale),
                               scale |-> scale]]

\* where the pointer is when the wheel turns
WheelPoints == {<<0, 0>>, <<100, 0 - 50>>}

Wheel(deltaY, mouse) ==
    /\ mouse \in WheelPoints
    /\ Commit([wheel(This, deltaY, mouse) EXCEPT !.op = "wheel"], This)

PanKeys == {"ArrowUp", "ArrowDown", "ArrowLeft", "ArrowRight", "Home"}

\* an arrow key or Home: both keydown listeners of the document run
PanKey(key) ==
    /\ key \in PanKeys
    /\ Commit([panKeyDown(handleKeyDown(This, key, DefaultText), key) EXCEPT !.op = "pan"],
              This)

\* a session after a page load; a table that holds a null is followed no
\* further than the timer of init
NextLoad ==
    \/ sound(nodes) /\ InitTimer
    \/ InitTimerThrows
    \/ sound(nodes) /\ \E id \in elements : ClickNode(id)
    \/ sound(nodes) /\ \E key \in {"z", "Tab", "Enter", "Delete"} : KeyDown(key)
    \/ sound(nodes) /\ TextareaEscape
    \/ sound(nodes) /\ EditTimer
    \/ sound(nodes) /\ LayoutTimer
    \/ sound(nodes) /\ \E key \in PanKeys : PanKey(key)
    \/ sound(nodes) /\ AutoSave

SpecLoad == InitLoad /\ [][NextLoad]_vars

\* ---------------------------------------------------------------- zooming
\* the wheel turned n times the same way, the pointer at the centre
RECURSIVE zoom(_, _, _)
zoom(t, deltaY, n) ==
    IF n = 0 THEN t
    ELSE CHOOSE r \in {wheel(b, deltaY, <<0, 0>>) : b \in {zoom(t, deltaY, n - 1)}} : TRUE

\* the items of a page load that is followed by zooming: none, the maps a session
\* stored after it had zoomed in or out, and a map stored with a scale of 5
ViewItems ==
    {Missing,
     mindmap_data(zoom(started, 0 - 100, ZoomIns)),
     mindmap_data(zoom(started, 100, ZoomOuts)),
     object(<<[key |-> 1, value |-> stored(1, 0, Null, <<>>, 0, 0)]>>, 1,
            [x |-> 0, y |-> 0, scale |-> 5 * Scale])}

InitView ==
    \E item \in ViewItems : \E session \in {init(item)} :
        /\ nodes = session.nodes
        /\ heap = session.heap
        /\ selectedNode = session.selectedNode
        /\ editingNode = session.editingNode
        /\ nodeCounter = session.nodeCounter
        /\ history = session.history
        /\ elements = session.elements
        /\ inputs = session.inputs
        /\ timers = session.timers
        /\ currentColorNode = session.currentColorNode
        /\ coords = session.coords
        /\ layoutTimers = session.layoutTimers
        /\ initTimer = session.initTimer
        /\ autoSaveTimer = session.autoSaveTimer
        /\ dragging = session.dragging
        /\ log = session.log
        /\ unlaid = FALSE
        /\ lastOp = "other"
        /\ issued = session.issued
        /\ trail = session.trail
        /\ run = session.run
        /\ fuel = [mutations |-> 0, excursions |-> MaxViewExcursions, undos |-> 0,
                   late |-> FALSE]
        /\ viewport = session.viewport
        /\ savedData = item

\* the init timer, the wheel and the keys that pan
NextView ==
    \/ InitTimer
    \/ \E deltaY \in {0 - 100, 100} : \E mouse \in WheelPoints : Wheel(deltaY, mouse)
    \/ \E key \in PanKeys : PanKey(key)

SpecView == InitView /\ [][NextView]_vars

\* ---------------------------------------------------------------- properties
node(k) == heap[refOf(nodes, k)]

nodeNext(k) == heap'[refOf(nodes', k)]

Range(q) == {q[i] : i \in 1..Len(q)}

SnapshotNext == [tree |-> Content(nodes', heap'), nodeCounter |-> nodeCounter']

\* the index of key k in the table
pos(k) == CHOOSE i \in 1..Len(nodes) : nodes[i].key = k

\* the chain of parent ids of k leads to n
RECURSIVE leadsTo(_, _)
leadsTo(k, n) == has(nodes, k) /\ (k = n \/ leadsTo(node(k).parent, n))

\* the step ran deleteNode(selectedNode) past its guard
DeleteStep == lastOp' = "cmd" /\ Len(nodes') < Len(nodes)

\* the step ran addChildNode or addSiblingNode past its guards
AddStep == lastOp' = "cmd" /\ Len(issued') = Len(issued) + 1

newId == issued'[Len(issued')]

\* the step called saveToHistory
PushStep == lastOp' \in {"cmd", "push"}

\* how often it called it: once per node that deleteNode removed, once otherwise
pushes == IF Len(nodes') < Len(nodes) THEN Len(nodes) - Len(nodes') ELSE 1

\* C1: in every reachable state every non-root node of the table has a parent
\* id that is a key of the table, and exactly one node has level 0.
C1_TreeInvariant ==
    /\ \A k \in Keys(nodes) : node(k).level # 0 => has(nodes, node(k).parent)
    /\ Cardinality({k \in Keys(nodes) : node(k).level = 0}) = 1

\* C2: deleteNode(N) on a non-root node N removes N and every node whose chain
\* of parent ids leads to N, and afterwards no node of the table has a parent id
\* that is absent from the table.
C2_DeleteCascades ==
    [][DeleteStep =>
          /\ \A k \in Keys(nodes) : leadsTo(k, selectedNode) => ~has(nodes', k)
          /\ \A k \in Keys(nodes') :
                nodeNext(k).parent # Null => has(nodes', nodeNext(k).parent)]_vars

\* C3: a mutating command followed at once by undo yields the tree the command
\* started from: the same ids, for every node the same parent, level, children,
\* text and color, and the same nodeCounter.
C3_UndoRoundTrip ==
    [][(lastOp = "cmd" /\ lastOp' = "undo") => SnapshotNext = trail[Len(trail)]]_vars

\* C4: no event changes the content recorded in a history entry that was
\* stored before it and is still in the history after it.
C4_EntriesImmutable ==
    [][\A i \in 1..Len(history) : \A j \in 1..Len(history') :
          history'[j] = history[i] =>
              Content(history[i].nodes, heap') = Content(history[i].nodes, heap)]_vars

\* C5 as stated: generateId never returns an id it has returned before.
C5_NeverReused == [][AddStep => newId \notin Range(issued)]_vars

\* C5 as amended: generateId never returns an id that is a key of the node
\* table or of a table recorded in the history, it returns nodeCounter + 1, and
\* nodeCounter is set back by undo only (so an id is returned again only after
\* an undo).
C5_FreshInTables ==
    [][/\ AddStep =>
             /\ newId = nodeCounter + 1
             /\ ~has(nodes, newId)
             /\ \A i \in 1..Len(history) : ~has(history[i].nodes, newId)
       /\ nodeCounter' < nodeCounter => lastOp' = "undo"]_vars

\* an add has returned an id for the second time
C5_Witness ==
    /\ lastOp = "cmd"
    /\ \E i \in 1..Len(issued) : issued[i] = issued[Len(issued)] /\ i < Len(issued)
    /\ has(nodes, issued[Len(issued)])

\* C6: for every node P of the table the children list of P holds, without
\* duplicates and in insertion order, exactly the ids of the nodes of the table
\* whose parent is P.
C6_ChildrenExact ==
    \A p \in Keys(nodes) :
        LET ch == node(p).children
        IN  /\ \A i, j \in 1..Len(ch) : ch[i] = ch[j] => i = j
            /\ Range(ch) = {k \in Keys(nodes) : node(k).parent = p}
            /\ \A i, j \in 1..Len(ch) :
                  (i < j /\ has(nodes, ch[i]) /\ has(nodes, ch[j])) => pos(ch[i]) < pos(ch[j])

\* C7: after more than maxHistorySize mutating commands the history holds
\* exactly maxHistorySize entries, and each successive undo restores the tree
\* that existed just before the most recent command not yet undone.
C7_Last50Recoverable ==
    [][run' > maxHistorySize =>
          /\ (lastOp' = "cmd" /\ Len(trail') = maxHistorySize)
                => Len(history') = maxHistorySize
          /\ (lastOp' = "undo" /\ trail # <<>>) => SnapshotNext = trail[Len(trail)]]_vars

\* C8: the history never holds more than maxHistorySize entries.
C8_HistoryBounded == Len(history) <= maxHistorySize

\* a command has pushed onto a full history
C8_Witness == Len(history) = maxHistorySize /\ run > maxHistorySize /\ lastOp = "cmd"

\* C9: a saveToHistory on a full history evicts exactly the oldest entry and
\* keeps the others in order before the new entry; on a history that is not full
\* it appends and evicts nothing.  (A step that calls it n times is n such pushes.)
C9_EvictsOldest ==
    [][PushStep =>
          LET n == pushes
              shift == Len(history) + n - Len(history')
          IN  /\ Len(history') =
                    IF Len(history) + n > maxHistorySize THEN maxHistorySize
                    ELSE Len(history) + n
              /\ \A j \in 1..(Len(history') - n) : history'[j] = history[j + shift]
              /\ n = 1 =>
                    /\ history'[Len(history')].nodes = nodes
                    /\ history'[Len(history')].nodeCounter = nodeCounter
                    /\ history'[Len(history')].selectedNode = selectedNode]_vars

\* a command has evicted the oldest entry of the long session
C9_Witness ==
    /\ Len(history) = maxHistorySize
    /\ history[1] = fullEntry(2)
    /\ history[Len(history)].nodes = fullTable
    /\ lastOp = "cmd"

\* C10: undo with an empty history leaves the node table, nodeCounter, the
\* selection and the history unchanged; with a history that is not empty it
\* removes exactly the newest entry and replaces the node table and nodeCounter
\* by that entry's.
C10_UndoPopsNewest ==
    [][lastOp' = "undo" =>
          IF history = <<>>
          THEN /\ nodes' = nodes
               /\ heap' = heap
               /\ nodeCounter' = nodeCounter
               /\ selectedNode' = selectedNode
               /\ history' = history
          ELSE /\ history' = SubSeq(history, 1, Len(history) - 1)
               /\ nodes' = history[Len(history)].nodes
               /\ Content(nodes', heap') = Content(history[Len(history)].nodes, heap)
               /\ nodeCounter' = history[Len(history)].nodeCounter]_vars

\* one command and two undos: one undo found an entry, the other none
C10_Witness ==
    /\ lastOp = "undo"
    /\ history = <<>>
    /\ run = 1
    /\ fuel.mutations = MaxCommands - 1
    /\ fuel.undos = MaxUndos - 2

\* the step changed the tree (ids, parents, levels, children, texts, colors)
TreeChanged == Content(nodes', heap') # Content(nodes, heap)

\* C11: every command that changes the tree (add child, add sibling, delete,
\* edit text, recolor) pushes one history entry holding the state before the
\* command, and a command that changes nothing pushes no entry.
C11_OnePushPerChange ==
    [][lastOp' # "undo" =>
          /\ TreeChanged =>
                /\ Len(history') = Len(history) + 1
                /\ history'[Len(history')].frozen = Content(nodes, heap)
          /\ ~TreeChanged => history' = history]_vars

\* whether a mutation recorded in l has no snapshot before it in l
unsnapshotted(l) ==
    \E i \in 1..Len(l) : l[i] = "mutate" /\ \A j \in 1..(i - 1) : l[j] # "snapshot"

\* whether a write to storage recorded in l finds the tree mutated and not laid
\* out, when d says whether it was so before the steps of l
persistsUnlaid(l, d) ==
    \E i \in 1..Len(l) : l[i] = "persist" /\ Dirty(SubSeq(l, 1, i - 1), d)

\* C12: the steps of a mutating command come in the order snapshot, mutation,
\* layout, persist: no mutation without a snapshot pushed before it by the same
\* command, and no write to storage, by a command or by an autosave tick, while
\* the tree is mutated and the layout for that mutation has not run.
C12_SnapshotMutateLayoutPersist ==
    [][~unsnapshotted(log') /\ ~persistsUnlaid(log', unlaid)]_vars

\* C13: between the mutation of an add and the layout for that mutation no
\* other event is processed: while an add is not laid out and its 50 ms
\* callback is pending, the next event starts with the layout.
C13_AddRunsToLayout ==
    [][(unlaid /\ layoutTimers > 0) => (log' # <<>> /\ Head(log') = "layout")]_vars

\* the session so far is a run of adds: every command added a node and none
\* was undone
addsOnly == run = Len(nodes) - 1 /\ Len(trail) = run

\* the last event ran updateLayout and nothing changed the tree after it
laidOut == ~unlaid /\ \E i \in 1..Len(log) : log[i] = "layout"

\* C14: after updateLayout on a tree built by add commands every pair of
\* distinct nodes satisfies |dx| >= 100 or |dy| >= 75 (validateNoOverlaps finds
\* no pair).  The trees of the prepared sessions have at most MaxShape + MaxDeep
\* added nodes.
C14_NoOverlapAfterLayout ==
    (addsOnly /\ laidOut) => remainingOverlaps(This) = {}

\* C15: for a fixed tree, updateLayout called twice in a row gives every node
\* the same (x, y) the second time as the first; stated for trees built by adds.
C15_LayoutTwiceSame ==
    addsOnly =>
        LET once == updateLayout(This)
            twice == updateLayout(once)
        IN  (once.exact /\ twice.exact) => twice.coords = once.coords

\* C16: updateLayout computes the coordinates from the shape of the tree alone:
\* while a node is dragged, updateLayout on the tree as it is and on the same
\* tree after the next move of the pointer give every node the same (x, y);
\* stated for trees built by adds.
C16_LayoutFromShapeAlone ==
    \A delta \in DragDeltas :
        (addsOnly /\ dragging # {}) =>
            LET before == updateLayout(This)
                after == updateLayout(moveAll(This, dragging, delta))
            IN  (before.exact /\ after.exact) => after.coords = before.coords

\* the session so far is made of commands none of which was undone
noUndo == Len(trail) = run

\* the level-1 ancestor of the node at r
RECURSIVE branch(_)
branch(r) ==
    IF heap[r].level <= 1 \/ ~has(nodes, heap[r].parent) THEN r
    ELSE branch(refOf(nodes, heap[r].parent))

\* C17: after updateLayout on a tree built by add and delete commands every
\* node of level 2 or more is on the side of the root where its level-1
\* ancestor is, and farther from x = 0 than its parent.
C17_BranchSideStable ==
    (noUndo /\ laidOut) =>
        \A i \in 1..Len(nodes) :
            LET r == nodes[i].ref
            IN  (heap[r].level >= 2 /\ has(nodes, heap[r].parent)) =>
                    /\ coords[r].x # 0
                    /\ (coords[r].x > 0) = (coords[branch(r)].x > 0)
                    /\ Abs(coords[r].x) > Abs(coords[refOf(nodes, heap[r].parent)].x)

\* a layout after a delete, with a node of level 2 on the left of the root
C17_Witness ==
    /\ noUndo /\ laidOut
    /\ Len(issued) > Len(nodes)
    /\ \E i \in 1..Len(nodes) :
          heap[nodes[i].ref].level >= 2 /\ coords[nodes[i].ref].x < 0

\* the ids of the nodes of the table whose parent is the root
rootChildren == {id \in Keys(nodes) : get(This, id).parent = rootData.id}

\* the place of a child of the root among them in creation order, from 1
creationRank(id) == Cardinality({j \in rootChildren : j <= id})

\* C18: after updateLayout the k-th child of the root in creation order is at
\* x = +320 when k is odd and at x = -320 when k is even, in every state
\* reached by add, delete and undo commands.
C18_RootChildrenAlternate ==
    laidOut =>
        \A id \in rootChildren :
            coords[refOf(nodes, id)].x =
                IF creationRank(id) % 2 = 1 THEN px(320) ELSE 0 - px(320)

RECURSIVE sumY(_, _, _)
sumY(t, rs, i) == IF i > Len(rs) THEN 0 ELSE Y(t, rs[i]) + sumY(t, rs, i + 1)

\* the children of the node at P are equally spaced in y and their mean y is
\* the y of P
centered(t, P) ==
    LET children == childrenOf(t, P)
    IN  /\ \A i \in 2..(Len(children) - 1) :
              Y(t, children[i + 1]) - Y(t, children[i]) = Y(t, children[2]) - Y(t, children[1])
        /\ sumY(t, children, 1) = Len(children) * Y(t, P)

\* C19: at the end of the placement that starts at the root, the children of
\* every non-root node that has children are equally spaced in y with their mean
\* at the parent's y; stated for trees built by adds.
C19_ChildrenCentered ==
    (addsOnly /\ hasRoot(This)) =>
        LET placed == phaseA(This)
        IN  placed.exact =>
                \A i \in 1..Len(nodes) :
                    (heap[nodes[i].ref].level > 0 /\ Len(childrenOf(placed, nodes[i].ref)) > 0)
                        => centered(placed, nodes[i].ref)

\* C20: after every updateLayout on a tree that has a root the root is at
\* (0, 0): in every state an event that ran updateLayout leaves, and for
\* updateLayout run on any state of the session, a dragged root included.
C20_RootPinned ==
    hasRoot(This) =>
        /\ (\E i \in 1..Len(log) : log[i] = "layout")
              => coords[rootRef(This)] = [x |-> 0, y |-> 0]
        /\ LET laid == updateLayout(This)
           IN  laid.coords[rootRef(laid)] = [x |-> 0, y |-> 0]

\* a layout has run in which a node sat on the root and the parent-child
\* adjustment moved that node 127.5 px away
C20_Witness ==
    /\ hasRoot(This) /\ laidOut
    /\ \E i \in 1..Len(nodes) :
          /\ nodes[i].ref # rootRef(This)
          /\ heap[nodes[i].ref].parent = heap[rootRef(This)].id
          /\ coords[nodes[i].ref].x = 0
          /\ 2 * Abs(coords[nodes[i].ref].y) = 3 * px(85)

\* the ids, levels, parents and children lists of the table of t, in its order
shape(t) ==
    [i \in 1..Len(t.nodes) |->
        [id |-> t.heap[t.nodes[i].ref].id, level |-> t.heap[t.nodes[i].ref].level,
         parent |-> t.heap[t.nodes[i].ref].parent,
         children |-> t.heap[t.nodes[i].ref].children]]

\* the tree of the scenario: node 2 and node 3 under the root, node 4 under node 2
scenarioShape ==
    <<[id |-> 1, level |-> 0, parent |-> Null, children |-> <<2, 3>>],
      [id |-> 2, level |-> 1, parent |-> 1, children |-> <<4>>],
      [id |-> 3, level |-> 1, parent |-> 1, children |-> <<>>],
      [id |-> 4, level |-> 2, parent |-> 2, children |-> <<>>]>>

\* node 2 at x = 320, node 3 at x = -320, node 4 at x = 600 and at the y of node 2
scenarioPlaced(t) ==
    /\ X(t, refOf(t.nodes, 2)) = px(320)
    /\ X(t, refOf(t.nodes, 3)) = 0 - px(320)
    /\ X(t, refOf(t.nodes, 4)) = px(320) + px(280)
    /\ Y(t, refOf(t.nodes, 4)) = Y(t, refOf(t.nodes, 2))

\* C21: on the tree made by add-child under 1, add-child under 1 and add-child
\* under 2, a layout pass leaves node 2 at x = +320, node 3 at x = -320 and node 4
\* at x = 600 with the y of node 2: in the states an event that ran updateLayout
\* leaves, and for updateLayout run on any state that holds that tree.
C21_ScenarioCoordinates ==
    shape(This) = scenarioShape =>
        /\ laidOut => scenarioPlaced(This)
        /\ scenarioPlaced(updateLayout(This))

\* the scenario's tree, laid out by an event of the session
C21_Witness ==
    shape(This) = scenarioShape /\ laidOut /\ lastOp # "undo"

\* a while loop's record: no more passes than its maximum, every pass but the last
\* found a colliding pair, and a loop that ended below its maximum ended on a
\* pass that found none
boundedLoop(l) ==
    /\ Len(l.hasOverlap) >= 1
    /\ Len(l.hasOverlap) <= l.maxIterations
    /\ \A k \in 1..(Len(l.hasOverlap) - 1) : l.hasOverlap[k]
    /\ Len(l.hasOverlap) < l.maxIterations => ~l.hasOverlap[Len(l.hasOverlap)]

\* C22: updateLayout run on any reachable state ends, and its overlap loops are
\* bounded: each per-level loop makes at most 15 full passes, the global loop,
\* which is the last one, at most 20, and each loop stops at the first full pass
\* that finds no colliding pair.
C22_OverlapLoopsBounded ==
    \A laid \in {updateLayout(This)} :
        /\ laid.log # <<>> /\ laid.log[Len(laid.log)] = "layout"
        /\ \A k \in 1..Len(laid.passes) :
              /\ boundedLoop(laid.passes[k])
              /\ laid.passes[k].maxIterations = IF k = Len(laid.passes) THEN 20 ELSE 15
        /\ hasRoot(This) => Len(laid.passes) >= 1

\* a layout is due whose overlap resolution needs a second pass of some loop
C22_Witness ==
    /\ layoutTimers > 0
    /\ \E laid \in {updateLayout(This)} :
          \E k \in 1..Len(laid.passes) : Len(laid.passes[k].hasOverlap) >= 2

\* the node of id k in t with its coordinates
placed(t, k) == [data |-> get(t, k), at |-> t.coords[refOf(t.nodes, k)]]

\* t has the table of the current state plus one entry, put last, and every node
\* of the current state but p is in t as it is now
oneMore(t, p) ==
    /\ Len(t.nodes) = Len(nodes) + 1
    /\ \A i \in 1..Len(nodes) : t.nodes[i].key = nodes[i].key
    /\ ~has(nodes, t.nodes[Len(t.nodes)].key)
    /\ \A k \in Keys(nodes) \ {p} : placed(t, k) = placed(This, k)

\* the node of id p in t differs from the current one by new at the end of its
\* children
adopted(t, p, new) ==
    placed(t, p) = [placed(This, p) EXCEPT !.data.children = Append(@, new)]

\* t left the table, the nodes, the counter and the history as they are
nothingChanged(t) ==
    /\ t.nodes = nodes /\ Content(t.nodes, t.heap) = Content(nodes, heap)
    /\ t.coords = coords
    /\ t.nodeCounter = nodeCounter
    /\ t.history = history

\* C23: addChildNode with the selection on a node of the table adds exactly one
\* node, at the parent's level + 1, with the parent's id as parent, put last in
\* the parent's children, and leaves every other node as it was; with the
\* selection on an id that the table does not hold it changes neither the table
\* nor nodeCounter nor the history.
C23_AddChild ==
    editingNode = Null =>
        \A p \in Range(issued) :
            \A t \in {addChildNode([This EXCEPT !.selectedNode = p])} :
                IF has(nodes, p)
                THEN \E new \in {t.nodes[Len(t.nodes)].key} :
                        /\ oneMore(t, p)
                        /\ get(t, new).id = new
                        /\ get(t, new).level = node(p).level + 1
                        /\ get(t, new).parent = p
                        /\ get(t, new).children = <<>>
                        /\ adopted(t, p, new)
                ELSE nothingChanged(t)

\* a Tab has just put a first child under a child of the root
C23_Witness ==
    /\ lastOp = "cmd" /\ selectedNode = issued[Len(issued)]
    /\ has(nodes, selectedNode) /\ node(selectedNode).level = 2
    /\ has(nodes, node(selectedNode).parent)
    /\ node(node(selectedNode).parent).children = <<selectedNode>>

\* t holds one node more than the current state: a sibling of the node p, with
\* p's parent and level, last in the children of that parent
siblingAdded(t, p) ==
    \E new \in {t.nodes[Len(t.nodes)].key} :
        /\ oneMore(t, node(p).parent)
        /\ get(t, new).id = new
        /\ get(t, new).level = node(p).level
        /\ get(t, new).parent = node(p).parent
        /\ has(nodes, node(p).parent)
        /\ adopted(t, node(p).parent, new)

\* C24: addSiblingNode with the selection on the root or on an id that the table
\* does not hold changes neither the table nor nodeCounter nor the history; with
\* the selection on any other node of the table it adds exactly one node, with
\* that node's parent and level, put last in the children of that parent.
C24_AddSibling ==
    editingNode = Null =>
        \A p \in Range(issued) :
            \A t \in {addSiblingNode([This EXCEPT !.selectedNode = p])} :
                IF ~has(nodes, p) THEN nothingChanged(t)
                ELSE IF node(p).level = 0 THEN nothingChanged(t)
                ELSE siblingAdded(t, p)

\* the root made by createRootNode is in the table, at level 0 and without parent
rootPresent ==
    /\ has(nodes, rootData.id)
    /\ node(rootData.id).level = 0
    /\ node(rootData.id).parent = Null

\* C25: the root is never deleted. deleteNode called with the root's id, or with
\* an id that the table does not hold, leaves the table, the selection and the
\* history as they are; and every state that adds, deletes, recolors and undos
\* reach holds the root in its table.
C25_RootNeverDeleted ==
    /\ rootPresent
    /\ \A p \in {rootData.id} \cup (Range(issued) \ Keys(nodes)) \cup {nodeCounter + 1} :
          \A t \in {deleteNode(This, p)} :
              nothingChanged(t) /\ t.selectedNode = selectedNode

\* a Delete has removed a child of the root and left the selection on the root,
\* where the next Delete goes
C25_Witness ==
    /\ lastOp = "cmd" /\ selectedNode = rootData.id /\ editingNode = Null
    /\ \E id \in Range(issued) :
          /\ ~has(nodes, id)
          /\ \A k \in 1..Len(node(rootData.id).children) : node(rootData.id).children[k] # id

\* C26: deleteNode of the selected node, a node of the table that is not the
\* root, leaves the selection on the id that was the node's parent, and the
\* table holds that id.
C26_SelectionToParent ==
    editingNode = Null =>
        \A p \in Keys(nodes) :
            node(p).level # 0 =>
                \A t \in {deleteNode([This EXCEPT !.selectedNode = p], p)} :
                    /\ ~has(t.nodes, p)
                    /\ t.selectedNode = node(p).parent
                    /\ has(t.nodes, t.selectedNode)

\* C27: changeNodeColor for the node the color menu was opened on, when the table
\* no longer holds that node, leaves the table, nodeCounter and the history as
\* they are.
C27_RecolorAbsentNoOp ==
    (currentColorNode # Null /\ ~has(nodes, currentColorNode)) =>
        \A color \in Colors :
            \A t \in {changeNodeColor(This, currentColorNode, color)} :
                nothingChanged(t)

\* the nodes an item holds: the values of its entries that are not null
nodesOf(item) ==
    {item.nodes[i].value : i \in {k \in 1..Len(item.nodes) : item.nodes[k].value # JsonNull}}

isObject(item) == item \notin {Missing, Unparseable, JsonNull}

\* a node of the item names a parent the item does not hold, or the item holds
\* no node of level 0, or more than one
corrupt(item) ==
    /\ isObject(item)
    /\ \/ \E n \in nodesOf(item) :
             n.parent # Null /\ \A k \in 1..Len(item.nodes) : item.nodes[k].key # n.parent
       \/ Cardinality({n \in nodesOf(item) : n.level = 0}) # 1

\* C28: loadFromDatabase on an item that holds a node whose parent id is not in
\* the item, or no node of level 0, or more than one, returns false and leaves
\* the table of the instance as it was.
C28_CorruptItemRejected ==
    corrupt(savedData) =>
        \A l \in {loadFromDatabase(blank, savedData)} :
            /\ ~l.returned
            /\ l.this.nodes = blank.nodes
            /\ l.this.nodeCounter = blank.nodeCounter

\* the nodes of level 0 in the table of t
levelZero(t) ==
    {i \in 1..Len(t.nodes) : t.nodes[i].ref # Null /\ t.heap[t.nodes[i].ref].level = 0}

\* the table of t is what createRootNode makes on a new instance
freshTree(t) ==
    /\ Len(t.nodes) = 1
    /\ t.nodes[1].ref # Null
    /\ get(t, t.nodes[1].key) = [rootData EXCEPT !.id = t.nodes[1].key]

\* an item that is there and is not a tree: not parseable, not an object, with a
\* null for a node, or corrupt
malformed(item) ==
    \/ item \in {Unparseable, JsonNull}
    \/ isObject(item) /\ (corrupt(item) \/ \E k \in 1..Len(item.nodes) :
                                               item.nodes[k].value = JsonNull)

\* C29: after init the table holds exactly one node of level 0, whatever the
\* stored item was; when the item was missing or malformed the table is the
\* single root of a fresh tree.
C29_OneRootAfterInit ==
    \A t \in {init(savedData)} :
        /\ Cardinality(levelZero(t)) = 1
        /\ (savedData = Missing \/ malformed(savedData)) => freshTree(t)

\* the table of t as a reader sees it: the ids in order, each with its node's
\* fields and coordinates (null where the table holds a null)
tableOf(t) ==
    [i \in 1..Len(t.nodes) |->
        [key |-> t.nodes[i].key,
         value |-> IF t.nodes[i].ref = Null THEN JsonNull
                   ELSE [data |-> t.heap[t.nodes[i].ref], at |-> t.coords[t.nodes[i].ref]]]]

\* C30: for every reachable state, the item saveToDatabase writes, read by
\* loadFromDatabase on a new instance, gives a table with the same ids in the
\* same order, for each node the same parent, level, children, text, color and
\* coordinates, and the same nodeCounter and viewport; the load returns true.
C30_SaveLoadRoundTrip ==
    \A l \in {loadFromDatabase(blank, mindmap_data(This))} :
        /\ tableOf(l.this) = tableOf(This)
        /\ l.this.nodeCounter = nodeCounter
        /\ l.this.viewport = viewport
        /\ sound(nodes) => l.returned

\* a session that began by loading a written item, was panned, got a node more
\* and has just saved
C30_Witness ==
    /\ savedData \in writtenItems
    /\ viewport # savedData.viewport
    /\ Len(nodes) > Len(savedData.nodes)
    /\ log # <<>> /\ log[Len(log)] = "persist"

\* the pairs of different nodes of the table, as references
pairs == {p \in Refs(nodes) \X Refs(nodes) : p[1] # Null /\ p[2] # Null /\ p[1] # p[2]}

isParentChild(a, b) == heap[a].parent = heap[b].id \/ heap[b].parent = heap[a].id

isSiblings(a, b) == heap[a].parent = heap[b].parent /\ heap[a].parent # Null

isDistant(a, b) == Abs(heap[a].level - heap[b].level) > 1

\* the class of the pair by the precedence parent-child, siblings,
\* distant-levels, general
classOf(a, b) ==
    CASE isParentChild(a, b) -> "parent-child"
      [] ~isParentChild(a, b) /\ isSiblings(a, b) -> "siblings"
      [] ~isParentChild(a, b) /\ ~isSiblings(a, b) /\ isDistant(a, b) -> "distant-levels"
      [] OTHER -> "general"

\* the adjustment of the class
adjustmentOf(class, a, b) ==
    LET requiredDistanceY == px(dimensions.height + dimensions.minGapY + 10)
    IN  CASE class = "parent-child" -> adjustParentChildOverlap(This, a, b, requiredDistanceY)
          [] class = "siblings" -> adjustSiblingOverlap(This, a, b, requiredDistanceY)
          [] class = "distant-levels" -> adjustDistantLevelOverlap(This, a, b, requiredDistanceY)
          [] OTHER -> adjustGeneralOverlap(This, a, b, requiredDistanceY)

\* C34: for every pair of nodes the strategy is parent-child when one is the
\* parent of the other, else siblings when both have the same parent and it is
\* not null, else distant-levels when the levels differ by more than 1, else
\* general; a pair that is parent-child is treated as parent-child whatever else
\* it is, and the adjustment applied is the one of the strategy.
C34_StrategyPrecedence ==
    sound(nodes) =>
        \A p \in pairs :
            \E s \in {determineAdjustmentStrategy(This, p[1], p[2])} :
                /\ s = classOf(p[1], p[2])
                /\ isParentChild(p[1], p[2]) => s = "parent-child"
                /\ applyOverlapAdjustment(This, p[1], p[2], s).coords
                       = adjustmentOf(classOf(p[1], p[2]), p[1], p[2]).coords

\* a layout is due on a table that holds a colliding pair of siblings
C34_Witness ==
    /\ sound(nodes) /\ layoutTimers > 0
    /\ \E p \in pairs : overlaps(This, p[1], p[2]) /\ classOf(p[1], p[2]) = "siblings"

\* C35: resolveNodePairOverlap on a colliding pair whose levels differ by more
\* than one moves only the deeper node: the shallower node and every other node
\* keep their coordinates, the deeper node keeps its x, and its y moves by the
\* required distance (height + gap + 10) away from y = 0, on the side of its sign.
C35_DistantMovesDeeperOutward ==
    sound(nodes) =>
        \A p \in pairs :
            (isDistant(p[1], p[2]) /\ overlaps(This, p[1], p[2])) =>
                \E t \in {resolveNodePairOverlap(This, p[1], p[2])} :
                    \E deeper \in {IF heap[p[1]].level > heap[p[2]].level THEN p[1] ELSE p[2]} :
                        /\ \A r \in 1..Len(coords) : r # deeper => t.coords[r] = coords[r]
                        /\ X(t, deeper) = X(This, deeper)
                        /\ Abs(Y(t, deeper) - Y(This, deeper))
                               = px(dimensions.height + dimensions.minGapY + 10)
                        /\ Y(This, deeper) > 0 => Y(t, deeper) > Y(This, deeper)
                        /\ Y(This, deeper) < 0 => Y(t, deeper) < Y(This, deeper)
                        /\ Abs(Y(t, deeper)) > Abs(Y(This, deeper))

\* a layout is due on a table where a node at y > 0 and a node at y = 0 each
\* collide with a node more than one level above
C35_Witness ==
    /\ sound(nodes) /\ initTimer
    /\ \E p \in pairs : /\ isDistant(p[1], p[2]) /\ overlaps(This, p[1], p[2])
                        /\ heap[p[1]].level > heap[p[2]].level /\ Y(This, p[1]) > 0
    /\ \E p \in pairs : /\ isDistant(p[1], p[2]) /\ overlaps(This, p[1], p[2])
                        /\ heap[p[1]].level > heap[p[2]].level /\ Y(This, p[1]) = 0

\* C36: resolveNodePairOverlap on a colliding pair adjusts it so that the pair
\* no longer collides (|dx| < width / 2 + 30 and |dy| < height + 25) and reports
\* an overlap; a pair that does not collide is left as it is and reported as no
\* overlap.
C36_AdjustedPairSeparated ==
    sound(nodes) =>
        \A p \in pairs :
            \E t \in {resolveNodePairOverlap(This, p[1], p[2])} :
                IF overlaps(This, p[1], p[2])
                THEN t.hasOverlap /\ ~overlaps(t, p[1], p[2])
                ELSE ~t.hasOverlap /\ t.coords = coords

\* C40: the overlap resolution changes no x: after updateLayout every node of
\* the table has the x the placement from the root (Phase A) gave it, and each
\* of the four adjustments, on any pair, leaves every x as it is.
C40_ResolutionKeepsX ==
    sound(nodes) =>
        /\ hasRoot(This) =>
              \E arranged \in {phaseA(This)} : \E laid \in {updateLayout(This)} :
                  \A r \in Refs(nodes) : X(laid, r) = X(arranged, r)
        /\ \A p \in pairs :
              \A s \in {"parent-child", "siblings", "distant-levels", "general"} :
                  \E t \in {applyOverlapAdjustment(This, p[1], p[2], s)} :
                      \A r \in 1..Len(coords) : X(t, r) = X(This, r)

\* a layout is due whose overlap resolution moves a node the placement had put
\* elsewhere
C40_Witness ==
    /\ sound(nodes) /\ hasRoot(This) /\ (initTimer \/ layoutTimers > 0)
    /\ \E arranged \in {phaseA(This)} : \E laid \in {updateLayout(This)} :
          \E r \in Refs(nodes) : Y(laid, r) # Y(arranged, r)

\* C37: in every state of a map that holds its root the selection is null or a
\* key of the node table.
C37_SelectionInTable ==
    (sound(nodes) /\ rootPresent) => (selectedNode = Null \/ has(nodes, selectedNode))

\* C38: in every state, whatever was done between an add and the timer that
\* starts the editing of the added node, the node being edited is null or a key
\* of the node table.
C38_EditingInTable == editingNode = Null \/ has(nodes, editingNode)

\* C39: in every state reached from a fresh root by adds, deletes and undos the
\* id generateId returns next is not a key of the node table (every key is at
\* most nodeCounter), so addChildNode and addSiblingNode keep every entry the
\* table held and put the new node under a key of its own.
C39_GeneratedIdUnused ==
    /\ ~has(nodes, generateId(This))
    /\ \A k \in Keys(nodes) : k <= nodeCounter
    /\ \A t \in {addChildNode(This), addSiblingNode(This)} :
          /\ \A k \in Keys(nodes) : has(t.nodes, k) /\ refOf(t.nodes, k) = refOf(nodes, k)
          /\ \A i, j \in 1..Len(t.nodes) : t.nodes[i].key = t.nodes[j].key => i = j

\* an add was the last command, made when a delete had left an id below
\* nodeCounter free: the added node has the next id and the free id stays free
C39_Witness ==
    /\ lastOp = "cmd" /\ trail # <<>>
    /\ nodeCounter = trail[Len(trail)].nodeCounter + 1
    /\ has(nodes, nodeCounter)
    /\ Len(nodes) = Len(trail[Len(trail)].tree) + 1
    /\ \E k \in 1..nodeCounter : ~has(nodes, k)

\* C32: in every state at most one node is being dragged, and a move of the
\* pointer changes the coordinates of at most one node.
C32_OneDragAtATime ==
    /\ Cardinality({d.ref : d \in dragging}) <= 1
    /\ \A delta \in DragDeltas :
          \E t \in {moveAll(This, dragging, delta)} :
              Cardinality({r \in 1..Len(coords) : t.coords[r] # coords[r]}) <= 1

\* C33: in every state the scale of the viewport is at least 0.1 and at most 3.
C33_ScaleInRange == 10 * viewport.scale >= Scale /\ viewport.scale <= 3 * Scale

\* a step in which the write to localStorage failed
failedWrite == log' # <<>> /\ log'[Len(log')] = "persistFailed"

\* C31: a step whose write to localStorage fails leaves the node table and its
\* nodes, nodeCounter, the selection, the node being edited, the history and the
\* viewport as they were (an autoSave tick leaves the coordinates too; the init
\* timer has laid the map out before it writes), and the timer of the next
\* autoSave tick is pending after it.
C31_FailedWriteSwallowed ==
    [][failedWrite =>
          /\ nodes' = nodes /\ heap' = heap /\ nodeCounter' = nodeCounter
          /\ selectedNode' = selectedNode /\ editingNode' = editingNode
          /\ history' = history /\ viewport' = viewport
          /\ ~initTimer => coords' = coords
          /\ autoSaveTimer']_vars

\* the write of an autoSave tick has failed on a map with an added node
C31_Witness ==
    /\ log = <<"persistFailed">> /\ lastOp = "other"
    /\ Len(nodes) > 1 /\ history # <<>>
    /\ autoSaveTimer
====
